---------------------------- MODULE Spec2Model ----------------------------
(***************************************************************************)
(* A model of the dispatch SOCKS proxy: the weighted round-robin           *)
(* dispatcher (src/src/dispatcher/weighted_rr.rs), the construction of the *)
(* dispatcher from the command line's addresses (resolve, new), the SOCKS  *)
(* handshake (src/src/socks.rs) and the accept loop with its connection    *)
(* tasks (src/src/server.rs).                                              *)
(*                                                                         *)
(* Three specifications share the variables:                               *)
(*   SpecDispatch  one dispatcher built from any bounded address list,     *)
(*                 called sequentially;                                    *)
(*   SpecBuild     WeightedAddress::resolve followed by                    *)
(*                 WeightedRoundRobinDispatcher::new on any bounded raw    *)
(*                 address list;                                           *)
(*   Spec          start_server: the accept loop and concurrent connection *)
(*                 tasks sharing the dispatcher behind its mutex.          *)
(***************************************************************************)
EXTENDS Integers, Sequences, FiniteSets, TLC

VARIABLES
    addresses,    \* Vec<WeightedAddress> the dispatcher is built from
    dispatcher,   \* WeightedRoundRobinDispatcherInner: [ipv4, ipv6 : State]
    returned,     \* history: per family, the IPs returned by dispatch, in lock order
    last,         \* history: the last dispatch call, with the state before it
    calls,        \* history: number of dispatch calls made
    rawAddresses, \* Vec<RawWeightedAddress> given on the command line
    build,        \* the stage and result of resolve + new
    listener,     \* start_server: the accept loop's position
    lock,         \* tokio Mutex around the dispatcher: NoTask or the holder
    conn,         \* per connection task: its position and local state
    warnings      \* number of tracing::warn! lines written so far

dispVars == <<addresses, dispatcher, returned, last, calls>>
buildVars == <<rawAddresses, build>>
serverVars == <<listener, lock, conn, warnings>>
vars == <<addresses, dispatcher, returned, last, calls, rawAddresses, build,
          listener, lock, conn, warnings>>

(***************************************************************************)
(* Bounds of the model.                                                    *)
(***************************************************************************)
MaxAddrs == 3
MaxWeight == 2
MaxCalls == 7

(***************************************************************************)
(* Values: Option, Result, IpAddr, SocketAddr.                             *)
(***************************************************************************)
None == [some |-> FALSE]
Some(x) == [some |-> TRUE, val |-> x]

Ok(x) == [ok |-> TRUE, val |-> x]
Err(e) == [ok |-> FALSE, err |-> e]

\* std::net::IpAddr: V4 wraps the four octets, V6 the eight segments.
IpAddrV4(octets) == [fam |-> "V4", addr |-> octets]
IpAddrV6(segments) == [fam |-> "V6", addr |-> segments]

SocketAddr(ip, port) == [ip |-> ip, port |-> port]

\* Ipv4Addr::is_loopback (127.0.0.0/8) and Ipv6Addr::is_loopback (::1).
is_loopback(ip) ==
    IF ip.fam = "V4" THEN ip.addr[1] = 127
    ELSE ip.addr = <<0, 0, 0, 0, 0, 0, 0, 1>>

Families == {"ipv4", "ipv6"}

(***************************************************************************)
(* WeightedAddress and Interface.                                          *)
(***************************************************************************)
InterfaceNamed(name, ipv4, ipv6) ==
    [tag |-> "Named", name |-> name, ipv4 |-> ipv4, ipv6 |-> ipv6]
InterfaceIp(ip) == [tag |-> "Ip", ip |-> ip]

WeightedAddress(interface, weight) == [interface |-> interface, weight |-> weight]
WeightedIp(ip, weight) == [ip |-> ip, weight |-> weight]

State(ips) == [ips |-> ips, ip_idx |-> 0, count |-> 0]

(***************************************************************************)
(* WeightedRoundRobinDispatcherInner::new: partition the addresses into    *)
(* the two family lists, in input order.                                   *)
(***************************************************************************)
\* A faulty variant: a named interface with both families gives its IPv4 only.
RECURSIVE new_loop_either(_, _, _)
new_loop_either(addrs, ipv4s, ipv6s) ==
    IF addrs = <<>> THEN [ipv4 |-> State(ipv4s), ipv6 |-> State(ipv6s)]
    ELSE LET address == Head(addrs)
             itf == address.interface
         IN  IF itf.tag = "Named"
             THEN new_loop_either(Tail(addrs),
                    IF itf.ipv4.some
                    THEN Append(ipv4s, WeightedIp(IpAddrV4(itf.ipv4.val), address.weight))
                    ELSE ipv4s,
                    IF itf.ipv6.some /\ ~itf.ipv4.some
                    THEN Append(ipv6s, WeightedIp(IpAddrV6(itf.ipv6.val), address.weight))
                    ELSE ipv6s)
             ELSE IF itf.ip.fam = "V4"
                  THEN new_loop_either(Tail(addrs),
                         Append(ipv4s, WeightedIp(IpAddrV4(itf.ip.addr), address.weight)),
                         ipv6s)
                  ELSE new_loop_either(Tail(addrs), ipv4s,
                         Append(ipv6s, WeightedIp(IpAddrV6(itf.ip.addr), address.weight)))

\* A faulty variant: an address already in a family list is not added again.
RECURSIVE new_loop_unique(_, _, _)
new_loop_unique(addrs, ipv4s, ipv6s) ==
    IF addrs = <<>> THEN [ipv4 |-> State(ipv4s), ipv6 |-> State(ipv6s)]
    ELSE LET address == Head(addrs)
             itf == address.interface
             push(ips, ip) == IF \E k \in 1..Len(ips) : ips[k].ip = ip THEN ips
                              ELSE Append(ips, WeightedIp(ip, address.weight))
         IN  IF itf.tag = "Named"
             THEN new_loop_unique(Tail(addrs),
                    IF itf.ipv4.some THEN push(ipv4s, IpAddrV4(itf.ipv4.val)) ELSE ipv4s,
                    IF itf.ipv6.some THEN push(ipv6s, IpAddrV6(itf.ipv6.val)) ELSE ipv6s)
             ELSE IF itf.ip.fam = "V4"
                  THEN new_loop_unique(Tail(addrs), push(ipv4s, IpAddrV4(itf.ip.addr)), ipv6s)
                  ELSE new_loop_unique(Tail(addrs), ipv4s, push(ipv6s, IpAddrV6(itf.ip.addr)))

RECURSIVE new_loop(_, _, _)
new_loop(addrs, ipv4s, ipv6s) ==
    IF addrs = <<>> THEN [ipv4 |-> State(ipv4s), ipv6 |-> State(ipv6s)]
    ELSE LET address == Head(addrs)
             itf == address.interface
         IN  IF itf.tag = "Named"
             THEN new_loop(Tail(addrs),
                    IF itf.ipv4.some
                    THEN Append(ipv4s, WeightedIp(IpAddrV4(itf.ipv4.val), address.weight))
                    ELSE ipv4s,
                    IF itf.ipv6.some
                    THEN Append(ipv6s, WeightedIp(IpAddrV6(itf.ipv6.val), address.weight))
                    ELSE ipv6s)
             ELSE IF itf.ip.fam = "V4"
                  THEN new_loop(Tail(addrs),
                         Append(ipv4s, WeightedIp(IpAddrV4(itf.ip.addr), address.weight)),
                         ipv6s)
                  ELSE new_loop(Tail(addrs), ipv4s,
                         Append(ipv6s, WeightedIp(IpAddrV6(itf.ip.addr), address.weight)))

Inner_new(addrs) == new_loop(addrs, <<>>, <<>>)

(***************************************************************************)
(* WeightedRoundRobinDispatcherInner::select_state and ::dispatch.         *)
(* dispatch is given in its two halves, the read of the current slot and   *)
(* the update of counter and cursor: under the mutex one call runs both    *)
(* with no other call in between.                                          *)
(***************************************************************************)
\* A faulty variant: the two families swapped.
select_state_swapped(d, remote_addr) ==
    LET field == IF remote_addr.ip.fam = "V4" THEN "ipv6" ELSE "ipv4"
    IN  IF d[field].ips = <<>>
        THEN Err("AddressFamilyMismatch")
        ELSE Ok(field)

\* A faulty variant: the emptiness check dropped.
select_state_unchecked(d, remote_addr) ==
    Ok(IF remote_addr.ip.fam = "V4" THEN "ipv4" ELSE "ipv6")

select_state(d, remote_addr) ==
    LET field == IF remote_addr.ip.fam = "V4" THEN "ipv4" ELSE "ipv6"
    IN  IF d[field].ips = <<>>
        THEN Err("AddressFamilyMismatch")
        ELSE Ok(field)

\* let state = self.select_state(remote_addr)?; let ip = &state.ips[state.ip_idx];
dispatch_select(d, remote_addr) ==
    LET sel == select_state(d, remote_addr)
    IN  IF ~sel.ok THEN [kind |-> "Err", err |-> sel.err]
        ELSE LET state == d[sel.val]
             IN  IF state.ip_idx >= Len(state.ips)
                 THEN [kind |-> "Panic"]
                 ELSE [kind |-> "Ok", field |-> sel.val,
                       slot |-> state.ips[state.ip_idx + 1]]

\* A faulty variant: the counter compared with > instead of ==.
dispatch_advance_late(d, field, slot) ==
    LET state == d[field]
        count == state.count + 1
    IN  IF count > slot.weight
        THEN [d EXCEPT ![field] = [state EXCEPT !.count = 0,
                                       !.ip_idx = (state.ip_idx + 1) % Len(state.ips)]]
        ELSE [d EXCEPT ![field] = [state EXCEPT !.count = count]]

\* A faulty variant: the cursor advanced without wrapping.
dispatch_advance_nowrap(d, field, slot) ==
    LET state == d[field]
        count == state.count + 1
    IN  IF count = slot.weight
        THEN [d EXCEPT ![field] = [state EXCEPT !.count = 0,
                                       !.ip_idx = state.ip_idx + 1]]
        ELSE [d EXCEPT ![field] = [state EXCEPT !.count = count]]

\* A faulty variant: one counter for the two families: a call starts the
\* other family's count again.
dispatch_advance_shared(d, field, slot) ==
    LET state == d[field]
        other == IF field = "ipv4" THEN "ipv6" ELSE "ipv4"
        count == state.count + 1
    IN  IF count = slot.weight
        THEN [d EXCEPT ![field] = [state EXCEPT !.count = 0,
                                       !.ip_idx = (state.ip_idx + 1) % Len(state.ips)],
                       ![other] = [@ EXCEPT !.count = 0]]
        ELSE [d EXCEPT ![field] = [state EXCEPT !.count = count],
                       ![other] = [@ EXCEPT !.count = 0]]

\* state.count += 1; if state.count == weight { count = 0; ip_idx = (ip_idx + 1) % len }
dispatch_advance(d, field, slot) ==
    LET state == d[field]
        count == state.count + 1
    IN  IF count = slot.weight
        THEN [d EXCEPT ![field] = [state EXCEPT !.count = 0,
                                       !.ip_idx = (state.ip_idx + 1) % Len(state.ips)]]
        ELSE [d EXCEPT ![field] = [state EXCEPT !.count = count]]

\* One whole call: the result and the dispatcher state after it.
Inner_dispatch(d, remote_addr) ==
    LET sel == dispatch_select(d, remote_addr)
    IN  IF sel.kind = "Ok"
        THEN [res |-> [kind |-> "Ok", ip |-> sel.slot.ip],
              d |-> dispatch_advance(d, sel.field, sel.slot)]
        ELSE [res |-> sel, d |-> d]

(***************************************************************************)
(* The addresses a dispatcher is built from, and the remotes asked for.    *)
(***************************************************************************)
Ip_10_0_0_1 == IpAddrV4(<<10, 0, 0, 1>>)
Ip_10_0_0_2 == IpAddrV4(<<10, 0, 0, 2>>)
Ip_fd00_1 == IpAddrV6(<<64768, 0, 0, 0, 0, 0, 0, 1>>)

Interfaces ==
    { InterfaceIp(Ip_10_0_0_1),
      InterfaceIp(Ip_10_0_0_2),
      InterfaceIp(Ip_fd00_1),
      InterfaceNamed("eth0", Some(<<10, 0, 0, 3>>), Some(<<64768, 0, 0, 0, 0, 0, 0, 3>>)),
      InterfaceNamed("eth1", None, Some(<<64768, 0, 0, 0, 0, 0, 0, 4>>)) }

\* The weights tried: the smallest and the largest.
Weights == {1, MaxWeight}

WeightedAddresses == { WeightedAddress(i, w) : i \in Interfaces, w \in Weights }

SeqsUpTo(S, lo, hi) == UNION { [1..n -> S] : n \in lo..hi }

Remote_1_1_1_1 == SocketAddr(IpAddrV4(<<1, 1, 1, 1>>), 80)
Remote_loop6 == SocketAddr(IpAddrV6(<<0, 0, 0, 0, 0, 0, 0, 1>>), 80)
Remotes == {Remote_1_1_1_1, Remote_loop6}

FieldOf(remote_addr) == IF remote_addr.ip.fam = "V4" THEN "ipv4" ELSE "ipv6"

NoCall == [kind |-> "None"]
NoTask == 0

(***************************************************************************)
(* History of the dispatch calls.                                          *)
(***************************************************************************)
Record(remote_addr, res, before) ==
    /\ calls' = calls + 1
    /\ last' = [kind |-> "Call", remote |-> remote_addr, res |-> res, before |-> before]
    /\ returned' = IF res.kind = "Ok"
                   THEN [returned EXCEPT ![FieldOf(remote_addr)] = Append(@, res.ip)]
                   ELSE returned

(***************************************************************************)
(* SpecDispatch: a dispatcher built by new from any address list, called   *)
(* one call after the other.                                               *)
(***************************************************************************)
IdleBuild ==
    /\ rawAddresses = <<>>
    /\ build = [stage |-> "idle"]

IdleServer ==
    /\ listener = "idle"
    /\ lock = NoTask
    /\ conn = <<>>
    /\ warnings = 0

InitDispatch ==
    /\ addresses \in SeqsUpTo(WeightedAddresses, 1, MaxAddrs)
    /\ dispatcher = Inner_new(addresses)
    /\ returned = [ipv4 |-> <<>>, ipv6 |-> <<>>]
    /\ last = NoCall
    /\ calls = 0
    /\ IdleBuild
    /\ IdleServer

\* WeightedRoundRobinDispatcher::dispatch by a single caller: lock, call, unlock.
Dispatch ==
    /\ calls < MaxCalls
    /\ \E remote_addr \in Remotes :
          LET r == Inner_dispatch(dispatcher, remote_addr)
          IN  /\ dispatcher' = r.d
              /\ Record(remote_addr, r.res, dispatcher)
    /\ UNCHANGED <<addresses, buildVars, serverVars>>

NextDispatch == Dispatch

SpecDispatch == InitDispatch /\ [][NextDispatch]_vars

(***************************************************************************)
(* The weighted round-robin sequence of a family list, stated without the  *)
(* cursor and the counter: the block ip_1 x w_1, ..., ip_n x w_n, repeated.*)
(***************************************************************************)
RECURSIVE Repeat(_, _)
Repeat(x, n) == IF n = 0 THEN <<>> ELSE <<x>> \o Repeat(x, n - 1)

RECURSIVE Block(_)
Block(ips) ==
    IF ips = <<>> THEN <<>>
    ELSE Repeat(Head(ips).ip, Head(ips).weight) \o Block(Tail(ips))

ExpectedAt(ips, k) == Block(ips)[((k - 1) % Len(Block(ips))) + 1]

FollowsWeightedSequence(f) ==
    \A k \in 1..Len(returned[f]) : returned[f][k] = ExpectedAt(dispatcher[f].ips, k)

\* C1: for a family list [(ip_1,w_1),...,(ip_n,w_n)] the values returned by
\* successive successful dispatch calls of that family are ip_1 w_1 times, ...,
\* ip_n w_n times, and then the same block again, forever.
C1_WeightedSequence == \A f \in Families : FollowsWeightedSequence(f)

\* C1 witness: scenario S1, two full cycles of [(10.0.0.1,2),(10.0.0.2,1)].
C1_Witness ==
    /\ addresses = <<WeightedAddress(InterfaceIp(Ip_10_0_0_1), 2),
                     WeightedAddress(InterfaceIp(Ip_10_0_0_2), 1)>>
    /\ returned.ipv4 = <<Ip_10_0_0_1, Ip_10_0_0_1, Ip_10_0_0_2,
                         Ip_10_0_0_1, Ip_10_0_0_1, Ip_10_0_0_2>>

\* C5: in every reachable dispatcher state, each family with a non-empty list
\* has cursor < len(ips) and 0 <= counter < weight(ips[cursor]).
C5_CursorCounterInRange ==
    \A f \in Families :
        LET state == dispatcher[f]
        IN  state.ips # <<>> =>
              /\ state.ip_idx >= 0
              /\ state.ip_idx < Len(state.ips)
              /\ state.count >= 0
              /\ state.count < state.ips[state.ip_idx + 1].weight

\* C5 witness: after a failed call, and after a family's cursor has wrapped
\* around its list of two or more slots.
C5_Witness ==
    /\ last.kind = "Call"
    /\ last.res.kind = "Err"
    /\ \E f \in Families :
          /\ Len(dispatcher[f].ips) >= 2
          /\ Len(returned[f]) >= Len(Block(dispatcher[f].ips))
          /\ dispatcher[f].ip_idx = 0

FamilyOfField(f) == IF f = "ipv4" THEN "V4" ELSE "V6"

\* C6: a dispatch for an IPv4 remote never returns an IPv6 local address and a
\* dispatch for an IPv6 remote never returns an IPv4 local address.
C6_NoCrossFamily ==
    /\ \A f \in Families : \A k \in 1..Len(returned[f]) :
          returned[f][k].fam = FamilyOfField(f)
    /\ (last.kind = "Call" /\ last.res.kind = "Ok") =>
          last.res.ip.fam = last.remote.ip.fam

\* C6 witness: a dual-family dispatcher has served both an IPv4 and an IPv6 remote.
C6_Witness ==
    /\ \A f \in Families : Len(returned[f]) >= 2
    /\ last.kind = "Call" /\ last.res.kind = "Ok" /\ last.remote.ip.fam = "V6"

\* C7: a dispatch for a remote whose family list is empty fails with
\* AddressFamilyMismatch (an error value, never a crash) and leaves cursor and
\* counter of both families unchanged, so the other family's sequence goes on
\* as if the failed call had not happened.
C7_MismatchLeavesState ==
    last.kind = "Call" =>
        /\ last.res.kind # "Panic"
        /\ last.before[FieldOf(last.remote)].ips = <<>> =>
              /\ last.res.kind = "Err"
              /\ last.res.err = "AddressFamilyMismatch"
              /\ dispatcher = last.before
              /\ \A f \in Families : FollowsWeightedSequence(f)

\* C7 witness: scenario S2, built from [(10.0.0.1,1)]: dispatch([::1]:80) has
\* failed and then dispatch(1.1.1.1:80) returns 10.0.0.1.
C7_Witness ==
    /\ addresses = <<WeightedAddress(InterfaceIp(Ip_10_0_0_1), 1)>>
    /\ calls = 2
    /\ last.kind = "Call"
    /\ last.remote = Remote_1_1_1_1
    /\ last.res = [kind |-> "Ok", ip |-> Ip_10_0_0_1]
    /\ returned.ipv4 = <<Ip_10_0_0_1>>

(***************************************************************************)
(* The host: its network interfaces as NetworkInterface::show() lists them,*)
(* the addresses bind_socket can bind, and the strings that parse as an IP *)
(* address.                                                                *)
(***************************************************************************)
NetInterface(name, addr) == [name |-> name, addr |-> addr]

HostInterfaces ==
    << NetInterface("lo", <<IpAddrV4(<<127, 0, 0, 1>>),
                            IpAddrV6(<<0, 0, 0, 0, 0, 0, 0, 1>>)>>),
       NetInterface("eth0", <<IpAddrV4(<<10, 0, 0, 3>>),
                              IpAddrV6(<<65152, 0, 0, 0, 0, 0, 0, 3>>),
                              IpAddrV6(<<64768, 0, 0, 0, 0, 0, 0, 3>>)>>),
       NetInterface("eth1", <<IpAddrV6(<<64768, 0, 0, 0, 0, 0, 0, 4>>)>>),
       NetInterface("wlan0", <<IpAddrV4(<<169, 254, 7, 7>>)>>),
       NetInterface("tun0", <<IpAddrV4(<<10, 8, 0, 1>>)>>),
       NetInterface("lo1", <<IpAddrV4(<<127, 0, 0, 2>>), IpAddrV4(<<10, 0, 0, 9>>)>>) >>

\* Addresses of the host that bind_socket fails to bind.
Unbindable == { IpAddrV4(<<10, 8, 0, 1>>) }

\* net::bind_socket(addr).is_ok()
bind_socket_ok(addr) == addr \notin Unbindable

\* Ipv4Addr::is_link_local: 169.254.0.0/16.
is_link_local(ip) == ip.addr[1] = 169 /\ ip.addr[2] = 254

\* net::is_local_address; segments()[0] & 0xffc0 == 0xfe80 clears the low six
\* bits, which is a division by 64.
is_local_address(addr) ==
    IF is_loopback(addr) THEN TRUE
    ELSE IF addr.fam = "V4" THEN is_link_local(addr)
         ELSE addr.addr[1] \div 64 = 65152 \div 64

\* net::get_valid_addresses
get_valid_addresses(addrs) ==
    SelectSeq(addrs, LAMBDA a : ~is_local_address(a) /\ bind_socket_ok(a))

\* str::parse::<IpAddr>() on the strings of the model.
IpLiterals ==
    ("10.0.0.1" :> IpAddrV4(<<10, 0, 0, 1>>)) @@
    ("127.0.0.1" :> IpAddrV4(<<127, 0, 0, 1>>)) @@
    ("::1" :> IpAddrV6(<<0, 0, 0, 0, 0, 0, 0, 1>>)) @@
    ("fd00::1" :> IpAddrV6(<<64768, 0, 0, 0, 0, 0, 0, 1>>))

parse_ip(str) ==
    IF str \in DOMAIN IpLiterals THEN Ok(IpLiterals[str]) ELSE Err("AddrParseError")

RawWeightedAddress(interface, weight) == [interface |-> interface, weight |-> weight]

\* interfaces_by_name.get(name)
interfaces_by_name(name) ==
    LET hits == SelectSeq(HostInterfaces, LAMBDA i : i.name = name)
    IN  IF hits = <<>> THEN None ELSE Some(hits[Len(hits)])

FirstOf(addrs, fam) ==
    LET hits == SelectSeq(addrs, LAMBDA a : a.fam = fam)
    IN  IF hits = <<>> THEN None ELSE Some(hits[1])

(***************************************************************************)
(* WeightedAddress::resolve: one pass of the loop over the raw addresses.  *)
(***************************************************************************)
resolve_one(raw) ==
    LET net_interface == interfaces_by_name(raw.interface)
    IN  IF net_interface.some
        THEN LET valid == get_valid_addresses(net_interface.val.addr)
                 ipv4 == FirstOf(valid, "V4")
                 ipv6 == FirstOf(valid, "V6")
             IN  IF ipv4.some /\ is_loopback(ipv4.val) THEN Err("LoopbackAddress")
                 ELSE IF ipv6.some /\ is_loopback(ipv6.val) THEN Err("LoopbackAddress")
                 ELSE IF ~ipv4.some /\ ~ipv6.some THEN Err("NoIpAddressesFound")
                 ELSE Ok(WeightedAddress(
                            InterfaceNamed(net_interface.val.name,
                                IF ipv4.some THEN Some(ipv4.val.addr) ELSE None,
                                IF ipv6.some THEN Some(ipv6.val.addr) ELSE None),
                            raw.weight))
        ELSE LET ip == parse_ip(raw.interface)
             IN  IF ~ip.ok THEN Err("NotAnIpOrInterface")
                 ELSE Ok(WeightedAddress(InterfaceIp(ip.val), raw.weight))

RECURSIVE resolve_loop(_, _)
resolve_loop(raws, resolved) ==
    IF raws = <<>> THEN Ok(resolved)
    ELSE LET one == resolve_one(Head(raws))
         IN  IF ~one.ok THEN one
             ELSE resolve_loop(Tail(raws), Append(resolved, one.val))

\* show_ok: whether NetworkInterface::show() succeeded.
resolve(raws, show_ok) ==
    IF ~show_ok THEN Err("ShowFailed") ELSE resolve_loop(raws, <<>>)

(***************************************************************************)
(* SpecBuild: main's Start command up to the dispatcher: the command line  *)
(* (clap, required = true), resolve, then new.                             *)
(***************************************************************************)
RawNames == {"lo", "eth0", "eth1", "wlan0", "tun0", "lo1",
             "10.0.0.1", "127.0.0.1", "::1", "fd00::1", "bogus"}

RawWeightedAddresses == { RawWeightedAddress(n, w) : n \in RawNames, w \in Weights }

IdleDispatch ==
    /\ addresses = <<>>
    /\ dispatcher = Inner_new(<<>>)
    /\ returned = [ipv4 |-> <<>>, ipv6 |-> <<>>]
    /\ last = NoCall
    /\ calls = 0

InitBuild ==
    /\ rawAddresses \in SeqsUpTo(RawWeightedAddresses, 0, MaxAddrs)
    /\ build = [stage |-> "args"]
    /\ IdleDispatch
    /\ IdleServer

\* Opt::parse(): `addresses` is required, so an empty list ends in a usage error.
ParseArgs ==
    /\ build.stage = "args"
    /\ build' = IF rawAddresses = <<>> THEN [stage |-> "usage_error"]
                ELSE [stage |-> "parsed"]
    /\ UNCHANGED <<rawAddresses, dispVars, serverVars>>

\* let addresses = WeightedAddress::resolve(addresses)?;
Resolve ==
    /\ build.stage = "parsed"
    /\ \E show_ok \in BOOLEAN :
          LET r == resolve(rawAddresses, show_ok)
          IN  IF r.ok
              THEN /\ addresses' = r.val
                   /\ build' = [stage |-> "resolved"]
              ELSE /\ addresses' = addresses
                   /\ build' = [stage |-> "failed", err |-> r.err]
    /\ UNCHANGED <<rawAddresses, dispatcher, returned, last, calls, serverVars>>

(***************************************************************************)
(* Text.  A text is a sequence of pieces; a piece is "/" or a run of       *)
(* characters without '/': a name, an IP address as std prints it, a       *)
(* decimal digit, " (" or ")".                                             *)
(***************************************************************************)
Digits == <<"0", "1", "2", "3", "4", "5", "6", "7", "8", "9">>

\* Display for NonZeroUsize: the decimal digits.
RECURSIVE fmt_usize(_)
fmt_usize(n) ==
    IF n < 10 THEN <<Digits[n + 1]>>
    ELSE fmt_usize(n \div 10) \o <<Digits[(n % 10) + 1]>>

DigitValue(piece) == (CHOOSE d \in 1..10 : Digits[d] = piece) - 1

RECURSIVE parse_digits(_, _)
parse_digits(text, acc) ==
    IF text = <<>> THEN Ok(acc)
    ELSE IF \A d \in 1..10 : Digits[d] # Head(text) THEN Err("ParseIntError")
    ELSE parse_digits(Tail(text), 10 * acc + DigitValue(Head(text)))

\* str::parse::<NonZeroUsize>(): digits only, not empty, not zero.
parse_weight(text) ==
    IF text = <<>> THEN Err("ParseIntError")
    ELSE LET n == parse_digits(text, 0)
         IN  IF ~n.ok THEN n
             ELSE IF n.val = 0 THEN Err("ParseIntError")
             ELSE n

\* Display for IpAddr on the addresses of the model.
IpTexts ==
    IpLiterals @@
    ("10.0.0.2" :> IpAddrV4(<<10, 0, 0, 2>>)) @@
    ("10.0.0.3" :> IpAddrV4(<<10, 0, 0, 3>>)) @@
    ("10.0.0.9" :> IpAddrV4(<<10, 0, 0, 9>>)) @@
    ("fd00::3" :> IpAddrV6(<<64768, 0, 0, 0, 0, 0, 0, 3>>)) @@
    ("fd00::4" :> IpAddrV6(<<64768, 0, 0, 0, 0, 0, 0, 4>>))

to_string(ip) == CHOOSE str \in DOMAIN IpTexts : IpTexts[str] = ip

\* impl Display for WeightedAddress
Display(wa) ==
    IF wa.interface.tag = "Named"
    THEN <<wa.interface.name, "/">> \o fmt_usize(wa.weight)
         \o (IF wa.interface.ipv4.some
             THEN <<" (", to_string(IpAddrV4(wa.interface.ipv4.val)), ")">> ELSE <<>>)
         \o (IF wa.interface.ipv6.some
             THEN <<" (", to_string(IpAddrV6(wa.interface.ipv6.val)), ")">> ELSE <<>>)
    ELSE <<to_string(wa.interface.ip), "/">> \o fmt_usize(wa.weight)

\* str::split('/'): the items between the '/' pieces.
RECURSIVE split(_, _)
split(text, item) ==
    IF text = <<>> THEN <<item>>
    ELSE IF Head(text) = "/" THEN <<item>> \o split(Tail(text), <<>>)
    ELSE split(Tail(text), Append(item, Head(text)))

\* RawInterface(src.to_string()): the interface item of a text of the model is
\* one piece or none.
RawInterface(item) == IF item = <<>> THEN "" ELSE item[1]

\* impl FromStr for RawWeightedAddress
from_str(src) ==
    LET items == split(src, <<>>)
        interface == RawInterface(items[1])
    IN  IF Len(items) >= 2
        THEN LET weight == parse_weight(items[2])
             IN  IF ~weight.ok THEN weight
                 ELSE Ok(RawWeightedAddress(interface, weight.val))
        ELSE Ok(RawWeightedAddress(interface, 1))

\* start_server: println!("Dispatching to ...") formats every address.
Show ==
    /\ build.stage = "resolved"
    /\ build' = [stage |-> "shown",
                 texts |-> [i \in 1..Len(addresses) |-> Display(addresses[i])]]
    /\ UNCHANGED <<rawAddresses, dispVars, serverVars>>

\* WeightedRoundRobinDispatcher::new(addresses); debug_assert!(!addresses.is_empty())
\* is checked only by a build with debug assertions.
New ==
    /\ build.stage = "shown"
    /\ \E debug_assertions \in BOOLEAN :
          IF debug_assertions /\ addresses = <<>>
          THEN /\ build' = [stage |-> "panicked"]
               /\ dispatcher' = dispatcher
          ELSE /\ build' = [stage |-> "built", texts |-> build.texts]
               /\ dispatcher' = Inner_new(addresses)
    /\ UNCHANGED <<rawAddresses, addresses, returned, last, calls, serverVars>>

\* The program is started again with the addresses it printed as its
\* arguments: clap applies RawWeightedAddress::from_str to each.
Restart ==
    /\ build.stage = "built"
    /\ build' = [stage |-> "restarted", texts |-> build.texts,
                 parsed |-> [i \in 1..Len(build.texts) |-> from_str(build.texts[i])]]
    /\ UNCHANGED <<rawAddresses, dispVars, serverVars>>

NextBuild == ParseArgs \/ Resolve \/ Show \/ New \/ Restart

SpecBuild == InitBuild /\ [][NextBuild]_vars

\* The sources of the built dispatcher, as resolve produced them.
SourceIps(wa) ==
    IF wa.interface.tag = "Ip" THEN {wa.interface.ip}
    ELSE (IF wa.interface.ipv4.some THEN {IpAddrV4(wa.interface.ipv4.val)} ELSE {})
         \cup (IF wa.interface.ipv6.some THEN {IpAddrV6(wa.interface.ipv6.val)} ELSE {})

LoopbackSource(i) == \E ip \in SourceIps(addresses[i]) : is_loopback(ip)

\* A raw source that names an interface of the host with no usable address.
NamesUnusableInterface(raw) ==
    /\ interfaces_by_name(raw.interface).some
    /\ \A k \in 1..Len(interfaces_by_name(raw.interface).val.addr) :
          LET a == interfaces_by_name(raw.interface).val.addr[k]
          IN  is_loopback(a) \/ is_local_address(a) \/ ~bind_socket_ok(a)

\* C8: building a dispatcher (resolve, then new) fails whenever the address
\* list is empty, or a source is a loopback address (a literal IP or one found
\* on a named interface), or a named interface has no usable non-loopback IP:
\* a built dispatcher has none of these.
C8_BuildRejects ==
    build.stage = "built" =>
        /\ rawAddresses # <<>>
        /\ \A i \in 1..Len(addresses) : ~LoopbackSource(i)
        /\ \A i \in 1..Len(rawAddresses) : ~NamesUnusableInterface(rawAddresses[i])

(***************************************************************************)
(* Spec: start_server.  The accept loop spawns one task per accepted       *)
(* connection; each task runs handle_socket: the SOCKS handshake, then the *)
(* relay.  One action is one step of a task between two suspension points. *)
(***************************************************************************)
MaxConns == 2

\* The clients.  The first MaxAnyClients connections come from clients that
\* send anything and meet every failure of the model; the connections after
\* them come from SOCKS5 clients that ask for a CONNECT to an IP address and
\* meet one failure of each kind.
MaxAnyClients == 1

From(t, any, plain) == IF t <= MaxAnyClients THEN any ELSE plain

\* The address lists the server is started with: scenario S1 (IPv4 only) and
\* a dual-stack list.
ServerConfigs ==
    { <<WeightedAddress(InterfaceIp(Ip_10_0_0_1), 2),
        WeightedAddress(InterfaceIp(Ip_10_0_0_2), 1)>>,
      <<WeightedAddress(InterfaceNamed("eth0", Some(<<10, 0, 0, 3>>),
                                       Some(<<64768, 0, 0, 0, 0, 0, 0, 3>>)), 1),
        WeightedAddress(InterfaceIp(Ip_fd00_1), 1)>> }

Tasks == 1..Len(conn)

\* A connection task as tokio::spawn starts it: handle_socket about to read
\* the version byte.
\* One direction of the relay, a server::pipe future: not created yet, being
\* polled, completed, or dropped without completing; the chunks it has copied
\* and the way its tokio::io::copy ended.
Pipe(state, copied, copy_end) == [state |-> state, copied |-> copied, copy_end |-> copy_end]

NewTask ==
    [pc |-> "read_version",
     version |-> "none",
     byte |-> 0,
     http |-> None,
     methods |-> <<>>,
     command |-> "none",
     resolved |-> None,
     host |-> None,
     slot |-> None,
     local_addr |-> None,
     outbound |-> "none",
     os_error |-> None,
     status |-> "none",
     wrote |-> <<>>,
     ops |-> {},
     pipes |-> <<Pipe("none", 0, None), Pipe("none", 0, None)>>,
     result |-> "running"]

Running == listener = "accepting"

At(t, pc) == Running /\ t \in Tasks /\ conn[t].pc = pc

\* What a write to the client leaves on the wire: the message, and whether
\* the write completed (a failed write may have sent part of it).
MethodReply(complete) == [msg |-> "method", status |-> "NoAuth", complete |-> complete]
\* write_request_status(writer, status, [0, 0, 0, 0], 0): every reply of the
\* handshake carries the address 0.0.0.0 and the port 0.
StatusReply(version, status, complete) ==
    [msg |-> "reply", version |-> version, status |-> status,
     bnd_addr |-> <<0, 0, 0, 0>>, bnd_port |-> 0, complete |-> complete]

Wrote(c, w) == [c EXCEPT !.wrote = Append(@, w)]

\* History: the task has started a lookup, a dispatch, a bind or a connect.
Did(c, op) == [c EXCEPT !.ops = @ \cup {op}]

\* The task goes on at pc.
Goto(t, c, pc) ==
    /\ conn' = [conn EXCEPT ![t] = [c EXCEPT !.pc = pc]]
    /\ UNCHANGED <<warnings, listener>>

\* A faulty variant: an error of a task is propagated out of the accept loop.
TaskErr_propagated(t, c, err) ==
    /\ conn' = [conn EXCEPT ![t] = [c EXCEPT !.pc = "done", !.result = Err(err)]]
    /\ warnings' = warnings + 1
    /\ listener' = "accept_failed"

\* handle_socket returns Err: the spawned closure logs it with tracing::warn!
\* and the task ends; the accept loop is not told.
TaskErr(t, c, err) ==
    /\ conn' = [conn EXCEPT ![t] = [c EXCEPT !.pc = "done", !.result = Err(err)]]
    /\ warnings' = warnings + 1
    /\ listener' = listener

\* The task panics: tokio ends the task, nothing is logged by the closure.
TaskPanic(t, c) ==
    /\ conn' = [conn EXCEPT ![t] = [c EXCEPT !.pc = "done", !.result = Err("Panic")]]
    /\ UNCHANGED <<warnings, listener>>

\* handle_socket returns Ok(()); info is the last tracing::info! line it wrote.
TaskOk(t, c, info) ==
    /\ conn' = [conn EXCEPT ![t] = [c EXCEPT !.pc = "done", !.result = Ok(info)]]
    /\ UNCHANGED <<warnings, listener>>

Init ==
    /\ addresses \in ServerConfigs
    /\ dispatcher = Inner_new(<<>>)
    /\ returned = [ipv4 |-> <<>>, ipv6 |-> <<>>]
    /\ last = NoCall
    /\ calls = 0
    /\ IdleBuild
    /\ listener = "start"
    /\ lock = NoTask
    /\ conn = <<>>
    /\ warnings = 0

\* let listener = TcpListener::bind(addr).await?; ... WeightedRoundRobinDispatcher::new
BindListener ==
    /\ listener = "start"
    /\ \/ /\ listener' = "accepting"
          /\ dispatcher' = Inner_new(addresses)
       \/ /\ listener' = "bind_failed"
          /\ dispatcher' = dispatcher
    /\ UNCHANGED <<addresses, returned, last, calls, buildVars, lock, conn, warnings>>

\* let (socket, _) = listener.accept().await?; tokio::spawn(...)
Accept ==
    /\ Running
    /\ Len(conn) < MaxConns
    /\ conn' = Append(conn, NewTask)
    /\ UNCHANGED <<dispVars, buildVars, listener, lock, warnings>>

\* listener.accept().await? fails: start_server returns the error, block_on
\* returns and the runtime is dropped with its tasks.
AcceptFail ==
    /\ Running
    /\ listener' = "accept_failed"
    /\ UNCHANGED <<dispVars, buildVars, lock, conn, warnings>>

(***************************************************************************)
(* SocksHandshake::handshake and handle_version_error.                     *)
(***************************************************************************)
\* The first bytes clients send: SOCKS4, SOCKS5, 'G' of an HTTP GET, 'Z'.
VersionBytes(t) == From(t, {4, 5, 71, 90}, {5})

\* 'C' | 'G' | 'P' | 'H' | 'D' | 'O' | 'T'
HttpPrefixBytes == {67, 71, 80, 72, 68, 79, 84}

HTTP_METHODS ==
    { <<71, 69, 84>>, <<72, 69, 65, 68>>, <<80, 79, 83, 84>>, <<80, 85, 84>>,
      <<68, 69, 76, 69, 84, 69>>, <<67, 79, 78, 78, 69, 67, 84>>,
      <<79, 80, 84, 73, 79, 78, 83>>, <<84, 82, 65, 67, 69>>,
      <<80, 65, 84, 67, 72>> }

starts_with(out, method) ==
    /\ Len(out) >= Len(method)
    /\ SubSeq(out, 1, Len(method)) = method

\* let mut out = [0u8; 1024];
BufferLen == 1024

\* "ET / HTTP/1.1\r\n", the bytes of a GET request line after its 'G'.
GetLine == <<69, 84, 32, 47, 32, 72, 84, 84, 80, 47, 49, 46, 49, 13, 10>>

Padding(n) == [i \in 1..n |-> 88]

\* What a client that sent 'G' sends next in one segment: the rest of the
\* request line, the same followed by header bytes up to 1024 bytes in all,
\* two other bytes, or nothing before it closes.
FollowingBytes ==
    ("get" :> GetLine) @@
    ("get_1024" :> GetLine \o Padding(BufferLen - Len(GetLine))) @@
    ("junk" :> <<88, 88>>) @@
    ("eof" :> <<>>)

\* The longest partial arrival of a segment the model tries.
MaxPartialRead == 15

\* How many bytes of the segment have arrived when the read is served: the
\* transport may split the segment anywhere; nothing arrives only at the end
\* of the stream.
Arrivals(segment) ==
    IF segment = <<>> THEN {0}
    ELSE { k \in 1..Len(segment) : k <= MaxPartialRead \/ k = Len(segment) }

Min(a, b) == IF a <= b THEN a ELSE b

\* AsyncReadExt::read(&mut buf): as many of the arrived bytes as buf holds.
read_into(arrived, buf_len) == Min(arrived, buf_len)

\* String::from_utf8_lossy on single-byte text: a byte that is not ASCII
\* becomes U+FFFD.
from_utf8_lossy(bytes) ==
    [i \in 1..Len(bytes) |-> IF bytes[i] < 128 THEN bytes[i] ELSE 65533]

\* http_header_error: out.split("\r\n").next().unwrap()
RECURSIVE first_line(_)
first_line(out) ==
    IF out = <<>> THEN <<>>
    ELSE IF Len(out) >= 2 /\ out[1] = 13 /\ out[2] = 10 THEN <<>>
    ELSE <<out[1]>> \o first_line(Tail(out))

\* What the HTTP diagnosis has seen: the segment the client sent, the bytes
\* of it that had arrived, the bytes read, and the line quoted in the error.
Diagnosis(sent, arrived, read, line) ==
    [sent |-> sent, arrived |-> arrived, read |-> read, line |-> line]

\* socksv5::read_version: the version byte, or InvalidVersion, or an I/O error.
\* handle_version_error turns every byte that is no HTTP prefix into the error.
handshake_read_version(t) ==
    /\ At(t, "read_version")
    /\ LET c == conn[t]
       IN  \/ TaskErr(t, c, "ProtocolIoError")
           \/ \E byte \in VersionBytes(t) :
                 IF byte = 5 THEN Goto(t, [c EXCEPT !.version = "V5"], "v5_read_handshake")
                 ELSE IF byte = 4 THEN Goto(t, [c EXCEPT !.version = "V4"], "v4_read_request")
                 ELSE IF byte \in HttpPrefixBytes
                      THEN Goto(t, [c EXCEPT !.byte = byte], "http_read")
                      ELSE TaskErr(t, c, "InvalidSocksVersion")
    /\ UNCHANGED <<dispVars, buildVars, lock>>

\* handle_version_error: out[0] = byte; self.reader.read(&mut out[1..]).await;
\* then &out[..read + 1], which panics past the end of the buffer.
handle_version_error(t) ==
    /\ At(t, "http_read")
    /\ LET c == conn[t]
       IN  \/ TaskErr(t, c, "InvalidSocksVersion")   \* Err(read_err)
           \/ \E sent \in DOMAIN FollowingBytes :
                 \E arrived \in Arrivals(FollowingBytes[sent]) :
                    LET read == read_into(arrived, BufferLen - 1)
                        out == from_utf8_lossy(<<c.byte>> \o
                                   SubSeq(FollowingBytes[sent], 1, read))
                    IN  IF read + 1 > BufferLen
                        THEN TaskPanic(t, [c EXCEPT !.http =
                                 Some(Diagnosis(sent, arrived, read, <<>>))])
                        ELSE IF \E method \in HTTP_METHODS : starts_with(out, method)
                        THEN TaskErr(t, [c EXCEPT !.http =
                                 Some(Diagnosis(sent, arrived, read, first_line(out)))],
                                 "HttpClientOnSocksListener")
                        ELSE TaskErr(t, [c EXCEPT !.http =
                                 Some(Diagnosis(sent, arrived, read, <<>>))],
                                 "InvalidSocksVersion")
    /\ UNCHANGED <<dispVars, buildVars, lock>>

(***************************************************************************)
(* SOCKSv5: the greeting, handle_auth, handle_request_v5.                  *)
(***************************************************************************)
\* The method lists clients offer: NO AUTH alone, without it, and among others.
MethodLists(t) == From(t, { <<0>>, <<1, 2>>, <<2, 0>> }, { <<0>> })

\* A faulty variant: every greeting is accepted.
supports_noauth_any(methods) == TRUE

\* assert_supports_noauth
supports_noauth(methods) == \E i \in 1..Len(methods) : methods[i] = 0

\* The requests clients send: the command, and the host as an IPv4 address, an
\* IPv6 address or a domain (whose bytes may be no UTF-8).
Commands(t) == From(t, {"Connect", "Bind"}, {"Connect"})
Hosts(t) ==
    { [tag |-> "Ipv4", addr |-> Remote_1_1_1_1],
      [tag |-> "Ipv6", addr |-> Remote_loop6] }
    \cup From(t, { [tag |-> "Domain", utf8 |-> TRUE],
                   [tag |-> "Domain", utf8 |-> FALSE] }, {})

\* socksv5::v5::read_handshake_skip_version, then handle_auth's check.
handle_handshake_v5_greeting(t) ==
    /\ At(t, "v5_read_handshake")
    /\ LET c == conn[t]
       IN  \/ TaskErr(t, c, "ProtocolIoError")
           \/ \E methods \in MethodLists(t) :
                 IF supports_noauth(methods)
                 THEN Goto(t, [c EXCEPT !.methods = methods], "v5_write_auth")
                 ELSE TaskErr(t, [c EXCEPT !.methods = methods], "AuthMethodUnsupported")
    /\ UNCHANGED <<dispVars, buildVars, lock>>

\* handle_auth: write_auth_method(&mut self.writer, Noauth).await?
handle_auth(t) ==
    /\ At(t, "v5_write_auth")
    /\ LET c == conn[t]
       IN  \/ Goto(t, Wrote(c, MethodReply(TRUE)), "v5_read_request")
           \/ TaskErr(t, Wrote(c, MethodReply(FALSE)), "ProtocolIoError")
    /\ UNCHANGED <<dispVars, buildVars, lock>>

\* handle_request_v5 up to the lookup: read_request, the command, the host.
handle_request_v5(t) ==
    /\ At(t, "v5_read_request")
    /\ LET c == conn[t]
       IN  \/ TaskErr(t, c, "ProtocolIoError")
           \/ \E command \in Commands(t), host \in Hosts(t) :
                 LET r == [c EXCEPT !.command = command]
                 IN  IF command = "Connect"
                     THEN IF host.tag = "Domain"
                          THEN IF host.utf8
                               THEN Goto(t, r, "v5_lookup")
                               ELSE TaskErr(t, r, "FromUtf8Error")
                          ELSE Goto(t, [r EXCEPT !.host = Some(host.addr)], "dispatch_lock")
                     ELSE Goto(t, r, "v5_reply_unsupported")
    /\ UNCHANGED <<dispVars, buildVars, lock>>

\* What tokio::net::lookup_host gives for a domain: an error, or the addresses
\* in the resolver's order, possibly none.
LookupResults ==
    { Err("lookup_host"), Ok(<<>>), Ok(<<Remote_1_1_1_1>>),
      Ok(<<Remote_loop6, Remote_1_1_1_1>>) }

\* A faulty variant: the last resolved address is taken.
lookup_last(found) ==
    IF ~found.ok THEN Err("HostResolutionFailed")
    ELSE IF found.val = <<>> THEN Err("HostResolutionFailed")
    ELSE Ok(found.val[Len(found.val)])

\* socks::lookup: lookup_host(&host).await.map_err(..)?.next().ok_or_else(..)?
lookup(found) ==
    IF ~found.ok THEN Err("HostResolutionFailed")
    ELSE IF found.val = <<>> THEN Err("HostResolutionFailed")
    ELSE Ok(Head(found.val))

\* A faulty variant: the dispatcher is asked for a source while the domain is
\* looked up, whatever the lookup gives.
handle_request_v5_lookup_eager(t) ==
    /\ At(t, "v5_lookup")
    /\ LET c == conn[t]
       IN  \E found \in LookupResults :
              LET r == Did([c EXCEPT !.resolved = Some(found)], "lookup")
                  addr == lookup(found)
              IN  IF addr.ok
                  THEN Goto(t, [r EXCEPT !.host = Some(addr.val)], "dispatch_lock")
                  ELSE Goto(t, r, "v5_reply_unreachable")
    /\ dispatcher' = Inner_dispatch(dispatcher, Remote_1_1_1_1).d
    /\ UNCHANGED <<addresses, returned, last, calls, buildVars, lock>>

\* handle_request_v5: match lookup((domain.as_str(), request.port)).await
handle_request_v5_lookup(t) ==
    /\ At(t, "v5_lookup")
    /\ LET c == conn[t]
       IN  \E found \in LookupResults :
              LET r == Did([c EXCEPT !.resolved = Some(found)], "lookup")
                  addr == lookup(found)
              IN  IF addr.ok
                  THEN Goto(t, [r EXCEPT !.host = Some(addr.val)], "dispatch_lock")
                  ELSE Goto(t, r, "v5_reply_unreachable")
    /\ UNCHANGED <<dispVars, buildVars, lock>>

\* A faulty variant: the return after the HostUnreachable reply is missing, and the
\* handshake goes on to dispatch.
handle_request_v5_unreachable_noreturn(t) ==
    /\ At(t, "v5_reply_unreachable")
    /\ LET c == conn[t]
       IN  \/ Goto(t, [Wrote(c, StatusReply("V5", "HostUnreachable", TRUE))
                          EXCEPT !.host = Some(Remote_1_1_1_1)], "dispatch_lock")
           \/ TaskErr(t, Wrote(c, StatusReply("V5", "HostUnreachable", FALSE)),
                      "ProtocolIoError")
    /\ UNCHANGED <<dispVars, buildVars, lock>>

\* handle_request_v5: write_request_status(HostUnreachable).await?; return Err(err)
handle_request_v5_unreachable(t) ==
    /\ At(t, "v5_reply_unreachable")
    /\ LET c == conn[t]
       IN  \/ TaskErr(t, Wrote(c, StatusReply("V5", "HostUnreachable", TRUE)),
                      "HostResolutionFailed")
           \/ TaskErr(t, Wrote(c, StatusReply("V5", "HostUnreachable", FALSE)),
                      "ProtocolIoError")
    /\ UNCHANGED <<dispVars, buildVars, lock>>

\* A faulty variant: an unsupported command is answered ServerFailure.
handle_request_v5_unsupported_status(t) ==
    /\ At(t, "v5_reply_unsupported")
    /\ LET c == conn[t]
       IN  \/ TaskErr(t, Wrote(c, StatusReply("V5", "ServerFailure", TRUE)),
                      "UnsupportedCommand")
           \/ TaskErr(t, Wrote(c, StatusReply("V5", "ServerFailure", FALSE)),
                      "ProtocolIoError")
    /\ UNCHANGED <<dispVars, buildVars, lock>>

\* handle_request_v5: write_request_status(CommandNotSupported).await?; Err(..)
handle_request_v5_unsupported(t) ==
    /\ At(t, "v5_reply_unsupported")
    /\ LET c == conn[t]
       IN  \/ TaskErr(t, Wrote(c, StatusReply("V5", "CommandNotSupported", TRUE)),
                      "UnsupportedCommand")
           \/ TaskErr(t, Wrote(c, StatusReply("V5", "CommandNotSupported", FALSE)),
                      "ProtocolIoError")
    /\ UNCHANGED <<dispVars, buildVars, lock>>

(***************************************************************************)
(* SOCKSv4: handle_request_v4.                                             *)
(***************************************************************************)
HostsV4 ==
    { [tag |-> "Ip", addr |-> Remote_1_1_1_1],
      [tag |-> "Domain", utf8 |-> TRUE],
      [tag |-> "Domain", utf8 |-> FALSE] }

handle_request_v4(t) ==
    /\ At(t, "v4_read_request")
    /\ LET c == conn[t]
       IN  \/ TaskErr(t, c, "ProtocolIoError")
           \/ \E command \in Commands(t), host \in HostsV4 :
                 LET r == [c EXCEPT !.command = command]
                 IN  IF command = "Connect"
                     THEN IF host.tag = "Domain"
                          THEN IF host.utf8
                               THEN Goto(t, r, "v4_lookup")
                               ELSE TaskErr(t, r, "FromUtf8Error")
                          ELSE Goto(t, [r EXCEPT !.host = Some(host.addr)], "dispatch_lock")
                     ELSE Goto(t, r, "v4_reply_unsupported")
    /\ UNCHANGED <<dispVars, buildVars, lock>>

\* handle_request_v4: match lookup((domain.as_str(), request.port)).await
handle_request_v4_lookup(t) ==
    /\ At(t, "v4_lookup")
    /\ LET c == conn[t]
       IN  \E found \in LookupResults :
              LET r == Did([c EXCEPT !.resolved = Some(found)], "lookup")
                  addr == lookup(found)
              IN  IF addr.ok
                  THEN Goto(t, [r EXCEPT !.host = Some(addr.val)], "dispatch_lock")
                  ELSE Goto(t, r, "v4_reply_unresolved")
    /\ UNCHANGED <<dispVars, buildVars, lock>>

\* handle_request_v4: write_request_status(Failed).await?; return Err(err)
handle_request_v4_unresolved(t) ==
    /\ At(t, "v4_reply_unresolved")
    /\ LET c == conn[t]
       IN  \/ TaskErr(t, Wrote(c, StatusReply("V4", "Failed", TRUE)), "HostResolutionFailed")
           \/ TaskErr(t, Wrote(c, StatusReply("V4", "Failed", FALSE)), "ProtocolIoError")
    /\ UNCHANGED <<dispVars, buildVars, lock>>

\* handle_request_v4: write_request_status(Failed).await?; Err(unsupported command)
handle_request_v4_unsupported(t) ==
    /\ At(t, "v4_reply_unsupported")
    /\ LET c == conn[t]
       IN  \/ TaskErr(t, Wrote(c, StatusReply("V4", "Failed", TRUE)), "UnsupportedCommand")
           \/ TaskErr(t, Wrote(c, StatusReply("V4", "Failed", FALSE)), "ProtocolIoError")
    /\ UNCHANGED <<dispVars, buildVars, lock>>

(***************************************************************************)
(* WeightedRoundRobinDispatcher::dispatch as the handshake calls it:       *)
(* self.0.lock().await, the inner dispatch, the guard dropped on return.   *)
(***************************************************************************)
\* A faulty variant: the lock is taken whether or not another task holds it.
lock_free_always == TRUE

\* tokio Mutex::lock resolves when no task holds the mutex.
lock_free == lock = NoTask

AfterDispatch(c) == IF c.version = "V5" THEN "v5_bind" ELSE "v4_bind"

dispatch_lock(t) ==
    /\ At(t, "dispatch_lock")
    /\ lock_free
    /\ lock' = t
    /\ Goto(t, Did(conn[t], "dispatch"), "dispatch_select")
    /\ UNCHANGED <<dispVars, buildVars>>

\* The call's first half, under the lock: select_state and the slot read.  An
\* error returns at once: the guard is dropped and handshake fails with the
\* error wrapped by dispatch_error, writing nothing to the client.
dispatch_call_select(t) ==
    /\ At(t, "dispatch_select")
    /\ LET c == conn[t]
           sel == dispatch_select(dispatcher, c.host.val)
       IN  IF sel.kind = "Ok"
           THEN /\ Goto(t, [c EXCEPT !.slot = Some(sel)], "dispatch_advance")
                /\ UNCHANGED <<lock, returned, last, calls>>
           ELSE /\ IF sel.kind = "Err" THEN TaskErr(t, c, "DispatchFailed")
                   ELSE TaskPanic(t, c)
                /\ Record(c.host.val, sel, dispatcher)
                /\ lock' = NoTask
    /\ UNCHANGED <<addresses, dispatcher, buildVars>>

\* A faulty variant: the guard is kept when the call returns.
dispatch_call_advance_held(t) ==
    /\ At(t, "dispatch_advance")
    /\ LET c == conn[t]
           sel == c.slot.val
       IN  /\ dispatcher' = dispatch_advance(dispatcher, sel.field, sel.slot)
           /\ Record(c.host.val, [kind |-> "Ok", ip |-> sel.slot.ip], dispatcher)
           /\ Goto(t, [c EXCEPT !.slot = None, !.local_addr = Some(sel.slot.ip)],
                   AfterDispatch(c))
    /\ lock' = lock
    /\ UNCHANGED <<addresses, buildVars>>

\* The call's second half: the counter and cursor update, the return of the
\* IP and the drop of the guard.
dispatch_call_advance(t) ==
    /\ At(t, "dispatch_advance")
    /\ LET c == conn[t]
           sel == c.slot.val
       IN  /\ dispatcher' = dispatch_advance(dispatcher, sel.field, sel.slot)
           /\ Record(c.host.val, [kind |-> "Ok", ip |-> sel.slot.ip], dispatcher)
           /\ Goto(t, [c EXCEPT !.slot = None, !.local_addr = Some(sel.slot.ip)],
                   AfterDispatch(c))
    /\ lock' = NoTask
    /\ UNCHANGED <<addresses, buildVars>>

(***************************************************************************)
(* handle_connect_v5 and handle_connect_v4.                                *)
(***************************************************************************)
\* raw_os_error() of a failed connect: none, ENETUNREACH, ETIMEDOUT,
\* ECONNREFUSED, EHOSTUNREACH, and EACCES for the rest.
ConnectErrors(t) ==
    From(t, { None, Some(101), Some(110), Some(111), Some(113), Some(13) }, { Some(111) })

\* A faulty variant: ETIMEDOUT and ECONNREFUSED exchanged.
connect_status_swapped(raw_os_error) ==
    IF raw_os_error = Some(101) THEN "NetworkUnreachable"
    ELSE IF raw_os_error = Some(111) THEN "TtlExpired"
    ELSE IF raw_os_error = Some(110) THEN "ConnectionRefused"
    ELSE IF raw_os_error = Some(113) THEN "HostUnreachable"
    ELSE "ServerFailure"

\* The status of the reply for a failed connect (handle_connect_v5).
connect_status(raw_os_error) ==
    IF raw_os_error = Some(101) THEN "NetworkUnreachable"
    ELSE IF raw_os_error = Some(110) THEN "TtlExpired"
    ELSE IF raw_os_error = Some(111) THEN "ConnectionRefused"
    ELSE IF raw_os_error = Some(113) THEN "HostUnreachable"
    ELSE "ServerFailure"

\* raw_os_error() of a failed bind: EADDRNOTAVAIL (49 in try_bind_socket) or another.
BindErrors(t) == From(t, { Some(49), Some(98) }, { Some(49) })

\* try_bind_socket
try_bind_error(raw_os_error) ==
    IF raw_os_error = Some(49) THEN "LocalAddressInaccessible" ELSE "BindIoError"

\* A faulty variant: a failed bind gives the turn back to the dispatcher.
handle_connect_v5_bind_rollback(t) ==
    /\ At(t, "v5_bind")
    /\ LET c == Did(conn[t], "bind")
           f == IF c.local_addr.val.fam = "V4" THEN "ipv4" ELSE "ipv6"
           state == dispatcher[f]
           prev == (state.ip_idx + Len(state.ips) - 1) % Len(state.ips)
       IN  \/ /\ Goto(t, [c EXCEPT !.outbound = "bound"], "v5_connect")
              /\ dispatcher' = dispatcher
           \/ /\ \E e \in BindErrors(t) : TaskErr(t, c, try_bind_error(e))
              /\ dispatcher' = [dispatcher EXCEPT ![f] =
                     IF state.count > 0 THEN [state EXCEPT !.count = @ - 1]
                     ELSE [state EXCEPT !.ip_idx = prev,
                                        !.count = state.ips[prev + 1].weight - 1]]
    /\ UNCHANGED <<addresses, returned, last, calls, buildVars, lock>>

\* let server_socket = try_bind_socket(local_addr)?;
handle_connect_v5_bind(t) ==
    /\ At(t, "v5_bind")
    /\ LET c == Did(conn[t], "bind")
       IN  \/ Goto(t, [c EXCEPT !.outbound = "bound"], "v5_connect")
           \/ \E e \in BindErrors(t) : TaskErr(t, c, try_bind_error(e))
    /\ UNCHANGED <<dispVars, buildVars, lock>>

\* let server_stream = server_socket.connect(address).await;
handle_connect_v5_connect(t) ==
    /\ At(t, "v5_connect")
    /\ LET c == Did(conn[t], "connect")
       IN  \/ Goto(t, [c EXCEPT !.outbound = "connected"], "v5_reply_success")
           \/ \E e \in ConnectErrors(t) :
                 Goto(t, [c EXCEPT !.outbound = "failed", !.os_error = e,
                                   !.status = connect_status(e)],
                      "v5_reply_error")
    /\ UNCHANGED <<dispVars, buildVars, lock>>

\* A faulty variant: the result of the Success write is ignored.
handle_connect_v5_success_unchecked(t) ==
    /\ At(t, "v5_reply_success")
    /\ LET c == conn[t]
       IN  \/ Goto(t, Wrote(c, StatusReply("V5", "Success", TRUE)), "peer_addr")
           \/ Goto(t, Wrote(c, StatusReply("V5", "Success", FALSE)), "peer_addr")
    /\ UNCHANGED <<dispVars, buildVars, lock>>

\* Ok(server_stream) => write_request_status(Success).await?; Ok(server_stream)
handle_connect_v5_success(t) ==
    /\ At(t, "v5_reply_success")
    /\ LET c == conn[t]
       IN  \/ Goto(t, Wrote(c, StatusReply("V5", "Success", TRUE)), "peer_addr")
           \/ TaskErr(t, Wrote(c, StatusReply("V5", "Success", FALSE)), "ProtocolIoError")
    /\ UNCHANGED <<dispVars, buildVars, lock>>

\* Err(err) => write_request_status(status).await?; Err(connect_error)
\* A faulty variant: after the error reply the connection is dispatched again.
handle_connect_v5_error_retry(t) ==
    /\ At(t, "v5_reply_error")
    /\ LET c == conn[t]
       IN  \/ Goto(t, Wrote(c, StatusReply("V5", c.status, TRUE)), "dispatch_lock")
           \/ TaskErr(t, Wrote(c, StatusReply("V5", c.status, FALSE)), "ProtocolIoError")
    /\ UNCHANGED <<dispVars, buildVars, lock>>

handle_connect_v5_error(t) ==
    /\ At(t, "v5_reply_error")
    /\ LET c == conn[t]
       IN  \/ TaskErr(t, Wrote(c, StatusReply("V5", c.status, TRUE)), "RemoteConnectFailed")
           \/ TaskErr(t, Wrote(c, StatusReply("V5", c.status, FALSE)), "ProtocolIoError")
    /\ UNCHANGED <<dispVars, buildVars, lock>>

handle_connect_v4_bind(t) ==
    /\ At(t, "v4_bind")
    /\ LET c == Did(conn[t], "bind")
       IN  \/ Goto(t, [c EXCEPT !.outbound = "bound"], "v4_connect")
           \/ \E e \in BindErrors(t) : TaskErr(t, c, try_bind_error(e))
    /\ UNCHANGED <<dispVars, buildVars, lock>>

handle_connect_v4_connect(t) ==
    /\ At(t, "v4_connect")
    /\ LET c == Did(conn[t], "connect")
       IN  \/ Goto(t, [c EXCEPT !.outbound = "connected"], "v4_reply_success")
           \/ Goto(t, [c EXCEPT !.outbound = "failed", !.status = "Failed"],
                   "v4_reply_error")
    /\ UNCHANGED <<dispVars, buildVars, lock>>

handle_connect_v4_success(t) ==
    /\ At(t, "v4_reply_success")
    /\ LET c == conn[t]
       IN  \/ Goto(t, Wrote(c, StatusReply("V4", "Granted", TRUE)), "peer_addr")
           \/ TaskErr(t, Wrote(c, StatusReply("V4", "Granted", FALSE)), "ProtocolIoError")
    /\ UNCHANGED <<dispVars, buildVars, lock>>

handle_connect_v4_error(t) ==
    /\ At(t, "v4_reply_error")
    /\ LET c == conn[t]
       IN  \/ TaskErr(t, Wrote(c, StatusReply("V4", "Failed", TRUE)), "RemoteConnectFailed")
           \/ TaskErr(t, Wrote(c, StatusReply("V4", "Failed", FALSE)), "ProtocolIoError")
    /\ UNCHANGED <<dispVars, buildVars, lock>>

(***************************************************************************)
(* handle_socket after the handshake: the peer addresses, then the relay.  *)
(***************************************************************************)
\* raw_os_error() of a failed socket.peer_addr(): EINVAL (22) or another.
PeerAddrErrors(t) == From(t, { Some(22), Some(107) }, { Some(107) })

\* socket.peer_addr(), server_socket.peer_addr()?, "connection initiated".
handle_socket_peer_addr(t) ==
    /\ At(t, "peer_addr")
    /\ LET c == conn[t]
       IN  \/ Goto(t, [c EXCEPT !.pipes = <<Pipe("copying", 0, None),
                                                Pipe("copying", 0, None)>>], "relay")
           \/ \E e \in PeerAddrErrors(t) :
                 IF e = Some(22) THEN TaskOk(t, c, "none")
                 ELSE TaskErr(t, c, "PeerAddrError")
           \/ TaskErr(t, c, "PeerAddrError")    \* server_socket.peer_addr()?
    /\ UNCHANGED <<dispVars, buildVars, lock>>

\* How tokio::io::copy ends in one direction: end of stream, or an error with
\* raw_os_error() 54, 104 (ECONNRESET on Linux) or 32 (EPIPE).
CopyEnds(t) == From(t, { None, Some(54), Some(104), Some(32) }, { None, Some(32) })

\* The chunks one direction copies at most.
MaxChunks == 1
Chunks(t) == From(t, MaxChunks, 0)

\* A faulty variant: every error of the copy is passed on.
pipe_strict(copy_end) ==
    IF copy_end = None THEN Ok("eof") ELSE Err("RelayIoError")

\* server::pipe: Some(54) => Ok(()), _ => Err(err), no error => Ok(()).
pipe(copy_end) ==
    IF copy_end = None THEN Ok("eof")
    ELSE IF copy_end = Some(54) THEN Ok("eof")
    ELSE Err("RelayIoError")

\* tokio::io::copy inside a pipe future that select! polls: one more chunk
\* goes from its reader to its writer.
pipe_copy(t) ==
    /\ At(t, "relay")
    /\ LET c == conn[t]
       IN  \E d \in 1..2 :
              /\ c.pipes[d].state = "copying"
              /\ c.pipes[d].copied < Chunks(t)
              /\ Goto(t, [c EXCEPT !.pipes[d].copied = @ + 1], "relay")
    /\ UNCHANGED <<dispVars, buildVars, lock>>

Other(d) == 3 - d

\* A faulty variant: both directions are awaited, as join! would.
pipe_multiple_join(pipes, d, copy_end) ==
    LET after == [pipes EXCEPT ![d] = Pipe("completed", @.copied, copy_end)]
    IN  [pipes |-> after,
         res |-> IF after[Other(d)].state = "completed"
                 THEN Some(pipe(copy_end)) ELSE None]

\* pipe_multiple: select! { res = pipe1 => res, res = pipe2 => res }.  The
\* direction d that completes gives the result; the other future is dropped
\* when pipe_multiple returns.
pipe_multiple(pipes, d, copy_end) ==
    [pipes |-> [pipes EXCEPT ![d] = Pipe("completed", @.copied, copy_end),
                             ![Other(d)] = Pipe("dropped", @.copied, None)],
     res |-> Some(pipe(copy_end))]

\* pipe_multiple(...).await?; then "connection terminated" and Ok(()).
handle_socket_relay(t) ==
    /\ At(t, "relay")
    /\ LET c == conn[t]
       IN  \E d \in 1..2, copy_end \in CopyEnds(t) :
              /\ c.pipes[d].state = "copying"
              /\ LET m == pipe_multiple(c.pipes, d, copy_end)
                     r == [c EXCEPT !.pipes = m.pipes]
                 IN  IF ~m.res.some THEN Goto(t, r, "relay")
                     ELSE IF m.res.val.ok THEN TaskOk(t, r, "connection terminated")
                     ELSE TaskErr(t, r, m.res.val.err)
    /\ UNCHANGED <<dispVars, buildVars, lock>>

TaskStep(t) ==
    \/ handshake_read_version(t)
    \/ handle_version_error(t)
    \/ handle_handshake_v5_greeting(t)
    \/ handle_auth(t)
    \/ handle_request_v5(t)
    \/ handle_request_v5_lookup(t)
    \/ handle_request_v5_unreachable(t)
    \/ handle_request_v5_unsupported(t)
    \/ handle_request_v4(t)
    \/ handle_request_v4_lookup(t)
    \/ handle_request_v4_unresolved(t)
    \/ handle_request_v4_unsupported(t)
    \/ dispatch_lock(t)
    \/ dispatch_call_select(t)
    \/ dispatch_call_advance(t)
    \/ handle_connect_v5_bind(t)
    \/ handle_connect_v5_connect(t)
    \/ handle_connect_v5_success(t)
    \/ handle_connect_v5_error(t)
    \/ handle_connect_v4_bind(t)
    \/ handle_connect_v4_connect(t)
    \/ handle_connect_v4_success(t)
    \/ handle_connect_v4_error(t)
    \/ handle_socket_peer_addr(t)
    \/ pipe_copy(t)
    \/ handle_socket_relay(t)

Next ==
    \/ BindListener
    \/ Accept
    \/ AcceptFail
    \/ \E t \in 1..MaxConns : TaskStep(t)

Spec == Init /\ [][Next]_vars

(***************************************************************************)
(* Properties of the server.                                               *)
(***************************************************************************)
InDispatch(t) == conn[t].pc \in {"dispatch_select", "dispatch_advance"}

\* C2: when connection tasks call dispatch concurrently, the slot read and the
\* counter/cursor update of one call are never interleaved with another
\* call's: at most one task is inside the call, it holds the lock, and the
\* values returned, in lock order, are the family's weighted round-robin
\* sequence.
C2_SerializedDispatch ==
    /\ \A t, u \in Tasks : (InDispatch(t) /\ InDispatch(u)) => t = u
    /\ \A t \in Tasks : InDispatch(t) => lock = t
    /\ \A f \in Families : FollowsWeightedSequence(f)

\* C2 witness: two tasks have dispatched remotes of one family whose list has
\* two slots, and both calls have returned.
C2_Witness ==
    \E f \in Families :
        /\ Len(dispatcher[f].ips) = 2
        /\ Len(returned[f]) = 2
        /\ returned[f][1] # returned[f][2]

Replies(c) == { i \in 1..Len(c.wrote) : c.wrote[i].msg = "reply" }

\* C3: for every handshake, completed with success or with any failure
\* (a failed reply write included), at most one request reply (v5 or v4 status
\* reply) is written to the client; the method selection is not counted.
C3_AtMostOneReply == \A t \in Tasks : Cardinality(Replies(conn[t])) <= 1

\* C3 witness: a v5 handshake has ended on a failed reply write after the
\* method selection, and another has ended after its reply.
C3_Witness ==
    \E t, u \in Tasks :
        /\ conn[t].pc = "done" /\ conn[u].pc = "done"
        /\ Len(conn[t].wrote) = 2
        /\ ~conn[t].wrote[2].complete
        /\ \E i \in Replies(conn[u]) : conn[u].wrote[i].complete

\* The failures of a v5 handshake that C4 lists, all after the request was read.
AfterRequestErrors ==
    {"UnsupportedCommand", "FromUtf8Error", "HostResolutionFailed", "DispatchFailed",
     "LocalAddressInaccessible", "BindIoError", "RemoteConnectFailed"}

ErrorReplyV5(c) ==
    \E i \in Replies(c) : c.wrote[i].version = "V5" /\ c.wrote[i].status # "Success"

\* C4: in a SOCKSv5 handshake every failure after the request has been read
\* (unsupported command, undecodable or unresolvable domain, dispatch failure,
\* bind failure, connect failure) writes a v5 error reply before it returns.
C4_ErrorReplyAlways ==
    \A t \in Tasks :
        (/\ conn[t].pc = "done"
         /\ conn[t].version = "V5"
         /\ ~conn[t].result.ok
         /\ conn[t].result.err \in AfterRequestErrors)
        => ErrorReplyV5(conn[t])

SuccessStatus == {"Success", "Granted"}

SuccessWritten(c) ==
    \E i \in Replies(c) : c.wrote[i].status \in SuccessStatus /\ c.wrote[i].complete

\* C9: the success reply (v5 Success, v4 Granted) is written only after the
\* outbound connect has succeeded, and the handshake hands the socket to the
\* relay only after that reply has been written completely: after a failed
\* connect or a failed success-reply write the task ends with an error and
\* never relays.
C9_ReplyThenRelay ==
    \A t \in Tasks :
        LET c == conn[t]
        IN  /\ (\E i \in Replies(c) : c.wrote[i].status \in SuccessStatus)
                  => c.outbound = "connected"
            /\ c.pc \in {"peer_addr", "relay"}
                  => (c.outbound = "connected" /\ SuccessWritten(c))
            /\ (c.pc = "done" /\ c.result.ok) => SuccessWritten(c)
            /\ (c.outbound = "failed" \/ \E i \in Replies(c) : ~c.wrote[i].complete)
                  => (c.pc \notin {"peer_addr", "relay"}
                      /\ (c.pc = "done" => ~c.result.ok))

\* C9 witness: one task relays after its success reply, another has ended with
\* an error on a failed write of the success reply.
C9_Witness ==
    \E t, u \in Tasks :
        /\ conn[t].pc = "relay"
        /\ conn[u].pc = "done"
        /\ \E i \in Replies(conn[u]) :
              conn[u].wrote[i].status \in SuccessStatus /\ ~conn[u].wrote[i].complete

\* The step in which task t ends with an error.
EndsWithError(t) ==
    /\ conn[t].pc # "done"
    /\ conn'[t].pc = "done"
    /\ ~conn'[t].result.ok

\* C10: connection tasks are independent: when a task ends with an error, the
\* accept loop goes on accepting, no other task is altered, and the only
\* effects are the warning and the dispatcher turn the task had consumed.
C10_TasksIndependent ==
    [][\A t \in Tasks :
          EndsWithError(t) =>
              /\ listener' = listener
              /\ \A u \in Tasks \ {t} : conn'[u] = conn[u]
              /\ warnings' = warnings + 1
              /\ dispatcher' = dispatcher
              /\ lock' \in {lock, NoTask}
              /\ (lock = t \/ lock' = lock)
              /\ (Len(conn') < MaxConns => ENABLED Accept)]_vars

\* C10 witness: a task has ended with an error while another relays and the
\* accept loop is still accepting.
C10_Witness ==
    /\ Running
    /\ warnings >= 1
    /\ \E t, u \in Tasks :
          /\ conn[t].pc = "done" /\ ~conn[t].result.ok
          /\ conn[u].pc = "relay"

\* The ways start_server has returned to its caller.
Returned == {"bind_failed", "accept_failed"}

\* C11: once the listening socket is bound, start_server never returns: no
\* later event, an error of accept included, ends the accept loop, and the only
\* error start_server returns is the failure of the listener bind.
C11_NeverReturnsOnceBound == listener \in Returned => listener = "bind_failed"

\* The positions at which a task is suspended in a socket read or write, a
\* name resolution, a bind or a connect.
IoPcs ==
    {"read_version", "http_read", "v5_read_handshake", "v5_write_auth",
     "v5_read_request", "v5_lookup", "v5_reply_unreachable", "v5_reply_unsupported",
     "v4_read_request", "v4_lookup", "v4_reply_unresolved", "v4_reply_unsupported",
     "v5_bind", "v5_connect", "v5_reply_success", "v5_reply_error",
     "v4_bind", "v4_connect", "v4_reply_success", "v4_reply_error",
     "peer_addr", "relay"}

ConnectPcs == {"v5_connect", "v4_connect"}

\* C12: the dispatcher lock is never held across I/O: a task suspended in a
\* read, a write, a resolution, a bind or a connect does not hold it; it is
\* released on the success path and on the AddressFamilyMismatch path before
\* dispatch returns; a task stalled in connect never blocks another task's
\* dispatch.
C12_LockNotHeldAcrossIo ==
    /\ \A t \in Tasks : conn[t].pc \in IoPcs \cup {"done"} => lock # t
    /\ lock # NoTask => (lock \in Tasks /\ InDispatch(lock))
    /\ \A t, u \in Tasks :
          (/\ Running
           /\ conn[t].pc \in ConnectPcs
           /\ conn[u].pc = "dispatch_lock"
           /\ \A v \in Tasks : ~InDispatch(v))
          => ENABLED dispatch_lock(u)

\* C12 witness: while one task is stalled in connect after its dispatch,
\* another task is inside dispatch and holds the lock.
C12_Witness ==
    \E t, u \in Tasks :
        /\ conn[t].pc \in ConnectPcs
        /\ conn[t].local_addr.some
        /\ conn[u].pc = "dispatch_advance"
        /\ lock = u

\* The step in which direction d of task t's relay completes.
Completes(t, d) ==
    /\ conn[t].pipes[d].state = "copying"
    /\ conn'[t].pipes[d].state = "completed"

\* C13: in the relay the two directions run concurrently and the task
\* completes as soon as either direction completes, whichever is first; the
\* other direction is cancelled at that point, copies no further bytes and is
\* never waited for.
C13_FirstCompletionEndsRelay ==
    [][\A t \in Tasks :
          /\ conn[t].pc = "relay" => \A d \in 1..2 : conn[t].pipes[d].state = "copying"
          /\ \A d \in 1..2 :
                Completes(t, d) =>
                    /\ conn'[t].pc = "done"
                    /\ conn'[t].pipes[Other(d)].state = "dropped"
                    /\ conn'[t].pipes[Other(d)].copied = conn[t].pipes[Other(d)].copied
          /\ conn[t].pc = "done" => conn'[t] = conn[t]]_vars

\* C13 witness: both directions have copied, the remote-to-client direction
\* completed first and the task has ended with the other direction dropped.
C13_Witness ==
    \E t \in Tasks :
        /\ conn[t].pc = "done"
        /\ conn[t].pipes[2].state = "completed"
        /\ conn[t].pipes[1].state = "dropped"
        /\ conn[t].pipes[1].copied = MaxChunks
        /\ conn[t].pipes[2].copied = MaxChunks

\* The failures of the dispatch / bind / connect sequence.
ConnectSequenceErrors ==
    {"DispatchFailed", "LocalAddressInaccessible", "BindIoError", "RemoteConnectFailed"}

\* C14: in a SOCKSv4 handshake every failure of the dispatch / bind / connect
\* sequence writes a reply with status Failed to the client, and success
\* writes Granted.
C14_V4FailedReplyAlways ==
    \A t \in Tasks :
        LET c == conn[t]
        IN  c.version = "V4" =>
              /\ (c.pc = "done" /\ ~c.result.ok /\ c.result.err \in ConnectSequenceErrors)
                    => \E i \in Replies(c) : c.wrote[i].status = "Failed"
              /\ (c.pc \in {"peer_addr", "relay"} \/ (c.pc = "done" /\ c.result.ok))
                    => \E i \in Replies(c) : c.wrote[i].status = "Granted"

RefusalStatus(version) == IF version = "V5" THEN "CommandNotSupported" ELSE "Failed"

\* C15: a request whose command is not CONNECT is refused with exactly one
\* reply and a local UnsupportedCommand error: for SOCKSv5 the reply has status
\* CommandNotSupported, BND.ADDR 0.0.0.0 and BND.PORT 0 and follows the method
\* reply, for SOCKSv4 it has status Failed with zero address and port; no
\* resolution, dispatch, bind or connect is performed.  (A reply whose write
\* fails is cut short and the write's error is the local error.)
C15_UnsupportedCommandRefused ==
    \A t \in Tasks :
        LET c == conn[t]
        IN  c.command \notin {"none", "Connect"} =>
              /\ c.ops = {}
              /\ ~c.resolved.some /\ ~c.host.some /\ ~c.local_addr.some
              /\ c.outbound = "none"
              /\ c.pc \in {"v5_reply_unsupported", "v4_reply_unsupported", "done"}
              /\ c.pc = "done" =>
                    /\ Cardinality(Replies(c)) = 1
                    /\ \A i \in Replies(c) :
                          /\ i = Len(c.wrote)
                          /\ c.wrote[i].version = c.version
                          /\ c.wrote[i].status = RefusalStatus(c.version)
                          /\ c.wrote[i].bnd_addr = <<0, 0, 0, 0>>
                          /\ c.wrote[i].bnd_port = 0
                          /\ c.result = IF c.wrote[i].complete
                                        THEN Err("UnsupportedCommand")
                                        ELSE Err("ProtocolIoError")
                    /\ c.wrote = IF c.version = "V5"
                                 THEN <<MethodReply(TRUE), c.wrote[Len(c.wrote)]>>
                                 ELSE <<c.wrote[Len(c.wrote)]>>

\* C15 witness: a v5 BIND request has been refused after the method reply.
C15_Witness ==
    \E t \in Tasks :
        /\ conn[t].command = "Bind"
        /\ conn[t].pc = "done"
        /\ conn[t].result = Err("UnsupportedCommand")
        /\ conn[t].wrote = <<MethodReply(TRUE), StatusReply("V5", "CommandNotSupported", TRUE)>>

OffersNoAuth(methods) == \E i \in 1..Len(methods) : methods[i] = 0

MethodReplies(c) == { i \in 1..Len(c.wrote) : c.wrote[i].msg = "method" }

\* C16: nothing is written to the client when the handshake fails at version
\* detection (with or without an HTTP diagnosis) or when a SOCKSv5 greeting does
\* not offer method 0x00; the 05 00 method reply is written only when 0x00 is
\* among the offered methods, and always before the v5 request is read.
C16_NoBytesBeforeMethodReply ==
    \A t \in Tasks :
        LET c == conn[t]
        IN  /\ c.version = "none" => c.wrote = <<>>
            /\ (c.pc = "done" /\ ~c.result.ok /\ c.result.err \in
                    {"InvalidSocksVersion", "HttpClientOnSocksListener",
                     "AuthMethodUnsupported"})
                  => c.wrote = <<>>
            /\ (c.methods # <<>> /\ ~OffersNoAuth(c.methods))
                  => (/\ c.wrote = <<>>
                      /\ c.pc = "done"
                      /\ c.result = Err("AuthMethodUnsupported"))
            /\ MethodReplies(c) # {}
                  => (c.version = "V5" /\ OffersNoAuth(c.methods) /\ MethodReplies(c) = {1})
            /\ (c.version = "V5" /\ (c.pc = "v5_read_request" \/ c.command # "none"))
                  => (c.wrote # <<>> /\ c.wrote[1] = MethodReply(TRUE))

\* C16 witness: a greeting without 0x00 has failed with nothing written while
\* another task has written the method reply and is about to read the request.
C16_Witness ==
    \E t, u \in Tasks :
        /\ conn[t].pc = "done"
        /\ conn[t].result = Err("AuthMethodUnsupported")
        /\ conn[t].wrote = <<>>
        /\ conn[u].pc = "v5_read_request"
        /\ conn[u].wrote = <<MethodReply(TRUE)>>

SingleFamily(wa) ==
    \/ wa.interface.tag = "Ip"
    \/ wa.interface.tag = "Named" /\ wa.interface.ipv4.some # wa.interface.ipv6.some

DualStack(wa) ==
    wa.interface.tag = "Named" /\ wa.interface.ipv4.some /\ wa.interface.ipv6.some

Count(P(_)) == Cardinality({ i \in 1..Len(addresses) : P(addresses[i]) })

\* C17: for every list of weighted sources given to the constructor, the IPv4
\* list holds only IPv4 addresses and the IPv6 list only IPv6 addresses, the two
\* lists together have as many entries as there are single-family sources plus
\* twice the dual-stack named sources, and no dispatch call changes either list.
C17_FamilyPartition ==
    /\ \A f \in Families : \A i \in 1..Len(dispatcher[f].ips) :
          dispatcher[f].ips[i].ip.fam = FamilyOfField(f)
    /\ Len(dispatcher.ipv4.ips) + Len(dispatcher.ipv6.ips)
          = Count(SingleFamily) + 2 * Count(DualStack)
    /\ last.kind = "Call" => \A f \in Families : dispatcher[f].ips = last.before[f].ips

\* C17 witness: a dispatcher built from a dual-stack interface, an IPv6-only
\* interface and an IP has served calls of both kinds.
C17_Witness ==
    /\ Count(DualStack) = 1
    /\ Count(SingleFamily) = 2
    /\ Len(dispatcher.ipv4.ips) = 1
    /\ Len(dispatcher.ipv6.ips) = 3
    /\ calls >= 2
    /\ last.kind = "Call" /\ last.res.kind = "Ok"
    /\ returned.ipv4 = <<>>

ResolutionFailed(c) ==
    /\ c.resolved.some
    /\ (~c.resolved.val.ok \/ c.resolved.val.val = <<>>)

ResolutionFailureStatus(version) == IF version = "V5" THEN "HostUnreachable" ELSE "Failed"

\* C18: when the destination is a domain name and resolution fails or yields
\* no address, the handshake writes one failure reply (v5 HostUnreachable with
\* zero address and port, v4 Failed) and then fails without dispatching; when
\* resolution succeeds the first resolved address is the remote.
C18_ResolutionFailureReply ==
    \A t \in Tasks :
        LET c == conn[t]
        IN  /\ ResolutionFailed(c) =>
                  /\ "dispatch" \notin c.ops
                  /\ ~c.host.some /\ ~c.local_addr.some
                  /\ c.pc \in {"v5_reply_unreachable", "v4_reply_unresolved", "done"}
                  /\ c.pc = "done" =>
                        /\ Cardinality(Replies(c)) = 1
                        /\ \A i \in Replies(c) :
                              /\ c.wrote[i].version = c.version
                              /\ c.wrote[i].status = ResolutionFailureStatus(c.version)
                              /\ c.wrote[i].bnd_addr = <<0, 0, 0, 0>>
                              /\ c.wrote[i].bnd_port = 0
                              /\ c.wrote[i].complete => c.result = Err("HostResolutionFailed")
                        /\ ~c.result.ok
            /\ (c.resolved.some /\ ~ResolutionFailed(c)) =>
                  c.host = Some(c.resolved.val.val[1])

\* C18 witness: a v5 CONNECT to a domain whose resolution yielded no address
\* has ended with the HostUnreachable reply and no dispatch.
C18_Witness ==
    \E t \in Tasks :
        /\ conn[t].resolved = Some(Ok(<<>>))
        /\ conn[t].pc = "done"
        /\ conn[t].result = Err("HostResolutionFailed")
        /\ conn[t].wrote = <<MethodReply(TRUE), StatusReply("V5", "HostUnreachable", TRUE)>>
        /\ calls = 0

Failed(t) == conn[t].pc = "done" /\ ~conn[t].result.ok

\* C19: a copy direction that ends with OS error 54 (ECONNRESET) counts as a
\* graceful end of stream: the relay returns success and the task logs
\* "connection terminated" without a warning; a copy direction that ends with
\* any other I/O error makes the task end with an error logged as a warning.
C19_ConnResetGraceful ==
    /\ \A t \in Tasks : \A d \in 1..2 :
          (conn[t].pc = "done" /\ conn[t].pipes[d].state = "completed") =>
              IF conn[t].pipes[d].copy_end \in {None, Some(54)}
              THEN conn[t].result = Ok("connection terminated")
              ELSE conn[t].result = Err("RelayIoError")
    /\ warnings = Cardinality({ t \in Tasks : Failed(t) })

\* C19 witness: a relay has ended on error 54 and the task has logged
\* "connection terminated"; no warning has been logged.
C19_Witness ==
    \E t \in Tasks, d \in 1..2 :
        /\ conn[t].pc = "done"
        /\ conn[t].pipes[d].copy_end = Some(54)
        /\ conn[t].result = Ok("connection terminated")
        /\ warnings = 0

\* The table of the reply status by OS error code of the failed connect.
StatusTable ==
    (101 :> "NetworkUnreachable") @@ (110 :> "TtlExpired") @@
    (111 :> "ConnectionRefused") @@ (113 :> "HostUnreachable")

ExpectedStatus(raw_os_error) ==
    IF raw_os_error.some /\ raw_os_error.val \in DOMAIN StatusTable
    THEN StatusTable[raw_os_error.val]
    ELSE "ServerFailure"

\* C20: on a failed outbound connect in a SOCKSv5 handshake the status of the
\* reply is a function of the OS error code: 101 NetworkUnreachable, 110
\* TtlExpired, 111 ConnectionRefused, 113 HostUnreachable, every other code or
\* no code ServerFailure; the reply is written before the handshake returns
\* RemoteConnectFailed.
C20_ConnectErrorStatus ==
    \A t \in Tasks :
        LET c == conn[t]
        IN  (c.version = "V5" /\ c.outbound = "failed") =>
              /\ c.status = ExpectedStatus(c.os_error)
              /\ \A i \in Replies(c) : c.wrote[i].status = ExpectedStatus(c.os_error)
              /\ c.pc \in {"v5_reply_error", "done"}
              /\ c.pc = "done" =>
                    /\ Cardinality(Replies(c)) = 1
                    /\ ~c.result.ok
                    /\ c.result.err = "RemoteConnectFailed" =>
                          \A i \in Replies(c) : c.wrote[i].complete

\* C20 witness: a connect that timed out (110) has been answered TtlExpired
\* and the handshake has returned RemoteConnectFailed.
C20_Witness ==
    \E t \in Tasks :
        /\ conn[t].os_error = Some(110)
        /\ conn[t].pc = "done"
        /\ conn[t].result = Err("RemoteConnectFailed")
        /\ conn[t].wrote = <<MethodReply(TRUE), StatusReply("V5", "TtlExpired", TRUE)>>

Diagnosed(c) == c.pc = "done" /\ c.http.some

\* "GET / HTTP/1.1"
GetRequestLine == <<71, 69, 84, 32, 47, 32, 72, 84, 84, 80, 47, 49, 46, 49>>

\* C21: a client whose first byte is 'G' and whose following bytes are
\* "ET / HTTP/1.1\r\n" makes the handshake fail with HttpClientOnSocksListener
\* quoting exactly "GET / HTTP/1.1", for every way the transport splits the
\* bytes after the first across reads, a read of part of the method included.
C21_HttpDetectedForEverySplit ==
    \A t \in Tasks :
        LET c == conn[t]
        IN  (Diagnosed(c) /\ c.byte = 71 /\ c.http.val.sent = "get") =>
              /\ c.result = Err("HttpClientOnSocksListener")
              /\ c.http.val.line = GetRequestLine

\* C26: after a first byte among C, G, P, H, D, O, T the engine takes in as
\* many as 1024 bytes beyond it for the HTTP diagnosis: a client that sends the
\* first byte and 1024 more in one segment has all 1024 examined; and first
\* byte at index 0, read length + 1 as the end of the slice never exceed the
\* buffer.
C26_Takes1024FurtherBytes ==
    \A t \in Tasks :
        LET c == conn[t]
        IN  Diagnosed(c) =>
              /\ c.result # Err("Panic")
              /\ c.http.val.read + 1 <= BufferLen
              /\ (Len(FollowingBytes[c.http.val.sent]) = 1024 /\ c.http.val.arrived = 1024)
                    => c.http.val.read = 1024

\* The value the parsed text stands for: the raw address, resolved.
Reparsed(i) ==
    IF build.parsed[i].ok THEN resolve_one(build.parsed[i].val) ELSE build.parsed[i]

\* C22: round trip of the weighted address syntax: for every WeightedAddress
\* (a literal IP, or a named interface with an IPv4 and/or IPv6 address, any
\* weight), parsing its Display string with the address parser succeeds and
\* yields an equivalent value with the same Display string.
C22_DisplayRoundTrip ==
    build.stage = "restarted" =>
        \A i \in 1..Len(addresses) :
            /\ build.parsed[i].ok
            /\ Reparsed(i) = Ok(addresses[i])
            /\ Display(Reparsed(i).val) = build.texts[i]

OtherField(f) == IF f = "ipv4" THEN "ipv6" ELSE "ipv4"

RECURSIVE SumWeights(_, _)
SumWeights(ips, n) == IF n = 0 THEN 0 ELSE ips[n].weight + SumWeights(ips, n - 1)

\* The turns a family state has taken in its current cycle: the weights of
\* the slots before the cursor, and the counter.
Turns(state) == SumWeights(state.ips, state.ip_idx) + state.count

\* The place of a family in its cycle counts the successful calls of that
\* family only.
OwnTurnsOnly(f) ==
    dispatcher[f].ips # <<>> =>
        Turns(dispatcher[f]) =
            Len(returned[f]) % SumWeights(dispatcher[f].ips, Len(dispatcher[f].ips))

\* C24: the two families have independent round-robin state: a dispatch for
\* an IPv4 remote leaves the IPv6 cursor and counter unchanged and the other
\* way round, so the place of a family in its sequence depends on the calls of
\* that family only, however the calls of the two families interleave.
C24_FamiliesIndependent ==
    /\ last.kind = "Call" =>
          dispatcher[OtherField(FieldOf(last.remote))]
              = last.before[OtherField(FieldOf(last.remote))]
    /\ \A f \in Families : OwnTurnsOnly(f)

\* C24 witness: an IPv4 call served while the IPv6 family is in the middle of
\* a slot of weight two, after calls of the two families in turn.
C24_Witness ==
    /\ last.kind = "Call" /\ last.res.kind = "Ok" /\ last.remote.ip.fam = "V4"
    /\ dispatcher.ipv6.count = 1
    /\ Len(returned.ipv4) >= 2 /\ Len(returned.ipv6) >= 3
    /\ last.before.ipv4 # dispatcher.ipv4

Contributes(wa, f) ==
    IF wa.interface.tag = "Ip" THEN wa.interface.ip.fam = FamilyOfField(f)
    ELSE wa.interface[f].some

IpFor(wa, f) ==
    IF wa.interface.tag = "Ip" THEN wa.interface.ip
    ELSE [fam |-> FamilyOfField(f), addr |-> wa.interface[f].val]

Contributions(f) == SelectSeq(addresses, LAMBDA wa : Contributes(wa, f))

\* C25: each family list holds the sources of that family in input order with
\* their weights: a named interface with both families gives one entry to
\* each list, with the weight of the source, and a source given twice is two
\* slots.
C25_ListsKeepOrderAndWeights ==
    \A f \in Families :
        /\ Len(dispatcher[f].ips) = Len(Contributions(f))
        /\ \A k \in 1..Len(Contributions(f)) :
              dispatcher[f].ips[k] =
                  WeightedIp(IpFor(Contributions(f)[k], f), Contributions(f)[k].weight)

\* C25 witness: the same literal IP twice with different weights around a
\* dual-stack interface, after the dispatcher has been used.
C25_Witness ==
    /\ Len(addresses) = 3
    /\ addresses[1].interface = InterfaceIp(Ip_10_0_0_1)
    /\ addresses[3].interface = InterfaceIp(Ip_10_0_0_1)
    /\ addresses[1].weight # addresses[3].weight
    /\ addresses[2].interface.tag = "Named"
    /\ addresses[2].interface.ipv4.some /\ addresses[2].interface.ipv6.some
    /\ Len(dispatcher.ipv4.ips) = 3 /\ Len(dispatcher.ipv6.ips) = 1
    /\ calls >= 2

\* The place of each step in the pipeline of a connection: the version read,
\* the method negotiation, the request read, the resolution, the dispatch, the
\* bind, the connect, the reply, the relay, the end.
StepRank ==
    [pc \in {"read_version"} |-> 1] @@
    [pc \in {"http_read", "v5_read_handshake"} |-> 2] @@
    [pc \in {"v5_write_auth"} |-> 3] @@
    [pc \in {"v5_read_request", "v4_read_request"} |-> 4] @@
    [pc \in {"v5_lookup", "v4_lookup"} |-> 5] @@
    [pc \in {"dispatch_lock"} |-> 6] @@
    [pc \in {"dispatch_select"} |-> 7] @@
    [pc \in {"dispatch_advance"} |-> 8] @@
    [pc \in {"v5_bind", "v4_bind"} |-> 9] @@
    [pc \in {"v5_connect", "v4_connect"} |-> 10] @@
    [pc \in {"v5_reply_success", "v4_reply_success", "v5_reply_error", "v4_reply_error",
             "v5_reply_unreachable", "v4_reply_unresolved",
             "v5_reply_unsupported", "v4_reply_unsupported"} |-> 11] @@
    [pc \in {"peer_addr"} |-> 12] @@
    [pc \in {"relay"} |-> 13] @@
    [pc \in {"done"} |-> 14]

\* What a connection has done implies what it did before.
StepsInOrder(c) ==
    /\ c.pc # "read_version" => c.pc = "done" \/ c.version # "none" \/ c.byte # 0
    /\ c.version = "V5" /\ StepRank[c.pc] \in 4..13 => 
          \E i \in 1..Len(c.wrote) : c.wrote[i].msg = "method" /\ c.wrote[i].complete
    /\ "lookup" \in c.ops => c.command = "Connect"
    /\ "dispatch" \in c.ops => c.host.some /\ c.command = "Connect"
    /\ "bind" \in c.ops => "dispatch" \in c.ops /\ c.local_addr.some
    /\ "connect" \in c.ops => "bind" \in c.ops /\ c.outbound # "none"
    /\ Replies(c) # {} /\ c.outbound # "none" => "connect" \in c.ops
    /\ c.pc = "relay" => SuccessWritten(c) /\ c.outbound = "connected"

\* C23: within one connection the steps come in a fixed order and each at
\* most once: version read, (v5) method reply, request read, resolution,
\* dispatch, bind, connect, reply, relay.  Every step of a task moves it forward
\* in that order (the relay alone goes on in place); the dispatcher is called
\* by a task that is in its dispatch step and leaves it for good with the
\* call, never before the destination is known; bind never precedes dispatch.
C23_PipelineOrder ==
    [][\A t \in DOMAIN conn :
          conn'[t] # conn[t] =>
            /\ \/ StepRank[conn[t].pc] < StepRank[conn'[t].pc]
               \/ conn[t].pc = "relay" /\ conn'[t].pc = "relay"
            /\ StepsInOrder(conn'[t])
            /\ calls' # calls =>
                  /\ conn[t].pc \in {"dispatch_select", "dispatch_advance"}
                  /\ conn[t].host.some
                  /\ StepRank[conn'[t].pc] > StepRank["dispatch_advance"]
                  /\ calls' = calls + 1]_vars

\* C23 witness: a SOCKSv5 connection that went through every step, the
\* resolution of a domain included, and relays.
C23_Witness ==
    \E t \in Tasks :
        /\ conn[t].pc = "relay"
        /\ conn[t].version = "V5"
        /\ conn[t].ops = {"lookup", "dispatch", "bind", "connect"}
        /\ conn[t].pipes[1].copied + conn[t].pipes[2].copied >= 1
        /\ calls >= 1

\* The errors of a handshake that ends before its dispatch step: an invalid
\* version, an HTTP client, NO-AUTH not offered, an unsupported command, a
\* failed resolution, a domain that is not UTF-8.
EarlyErrors ==
    {"InvalidSocksVersion", "HttpClientOnSocksListener", "AuthMethodUnsupported",
     "UnsupportedCommand", "HostResolutionFailed", "FromUtf8Error"}

\* The connection has ended before its dispatch step: with one of the early
\* errors, or with a failed read or write on the client socket while no
\* outbound socket had been made.
FailedEarly(c) ==
    /\ c.pc = "done"
    /\ ~c.result.ok
    /\ \/ c.result.err \in EarlyErrors
       \/ c.result.err = "ProtocolIoError" /\ c.outbound = "none"

NeverCalled(c) ==
    /\ "dispatch" \notin c.ops
    /\ ~c.local_addr.some
    /\ ~c.slot.some

\* C27: a handshake that fails before the dispatch step (invalid version, HTTP
\* client, NO-AUTH not offered, short read, unsupported command, resolution
\* failure) never calls the dispatcher: the cursor and the counter of both
\* families change only in the dispatch step of a connection that gets a
\* source, a connection that has failed early was never in that step, and the
\* step it fails in leaves the dispatcher and its history as they were.
C27_EarlyFailureSkipsDispatcher ==
    [][/\ (dispatcher' # dispatcher /\ listener # "start") =>
             \E t \in DOMAIN conn :
                /\ conn[t].pc = "dispatch_advance"
                /\ conn'[t].local_addr.some
                /\ ~FailedEarly(conn'[t])
       /\ \A t \in DOMAIN conn' : FailedEarly(conn'[t]) => NeverCalled(conn'[t])
       /\ (\E t \in DOMAIN conn : conn'[t] # conn[t] /\ FailedEarly(conn'[t])) =>
             /\ dispatcher' = dispatcher
             /\ returned' = returned
             /\ calls' = calls]_vars

\* C27 witness: a connection dispatched and one whose resolution failed, and
\* the dispatcher where the only call left it.
C27_Witness ==
    \E t, u \in Tasks :
        /\ conn[t].local_addr.some
        /\ FailedEarly(conn[u])
        /\ conn[u].result.err = "HostResolutionFailed"
        /\ calls = 1
        /\ last.kind = "Call" /\ last.res.kind = "Ok"
        /\ dispatcher # last.before
        /\ dispatcher = dispatch_advance(last.before, FieldOf(last.remote),
                                         [ip |-> last.res.ip,
                                          weight |-> last.before[FieldOf(last.remote)]
                                              .ips[last.before[FieldOf(last.remote)].ip_idx + 1].weight])

\* The connections that a successful dispatch call gave a source of family f.
Dispatched(f) ==
    { t \in Tasks : conn[t].local_addr.some
                     /\ conn[t].local_addr.val.fam = FamilyOfField(f) }

\* The connections whose relay was established.
Established == { t \in Tasks : conn[t].pipes[1].state # "none" }

\* The connection got a source and then failed in the bind, the connect or
\* the write of the reply.
FailedAfterDispatch(c) ==
    /\ c.pc = "done"
    /\ ~c.result.ok
    /\ \/ c.result.err \in {"BindIoError", "LocalAddressInaccessible", "RemoteConnectFailed"}
       \/ c.result.err = "ProtocolIoError" /\ c.outbound # "none"

\* C28: a turn of the dispatcher is consumed by every successful dispatch call
\* whatever happens afterwards: when the bind, the connect or the reply write
\* of the connection fails, cursor and counter are not rolled back: the
\* advances of a family are as many as the successful dispatch calls for that
\* family, and not as many as the relays established.
C28_TurnConsumedWhateverFollows ==
    /\ \A t \in Tasks : FailedAfterDispatch(conn[t]) => conn[t].local_addr.some
    /\ \A f \in Families :
          /\ Len(returned[f]) = Cardinality(Dispatched(f))
          /\ dispatcher[f].ips # <<>> =>
                Turns(dispatcher[f]) =
                    Cardinality(Dispatched(f))
                        % SumWeights(dispatcher[f].ips, Len(dispatcher[f].ips))

\* C28 witness: two connections got an IPv4 source; the bind of one failed and
\* the connect of the other; no relay was established and the IPv4 family is
\* two turns on.
C28_Witness ==
    \E t, u \in Tasks :
        /\ conn[t].pc = "done" /\ conn[u].pc = "done"
        /\ conn[t].result \in {Err("BindIoError"), Err("LocalAddressInaccessible")}
        /\ conn[u].result = Err("RemoteConnectFailed")
        /\ Cardinality(Dispatched("ipv4")) = 2
        /\ Turns(dispatcher.ipv4) = 2
        /\ Established = {}

=============================================================================
